---- MODULE Spec2Model ----
(***************************************************************************)
(* The client core of richter: the per-frame routine of a Connection       *)
(* (src/src/client/mod.rs), the World State Store it mutates               *)
(* (src/src/client/state.rs) and the sound channel allocator (Mixer).      *)
(*                                                                         *)
(* Durations are integers in milliseconds: every server timestamp enters   *)
(* through engine::duration_from_f32, which yields whole milliseconds.     *)
(* Ratios of durations (lerp_factor) and interpolated coordinates are      *)
(* exact rationals <<numerator, denominator>> with a positive denominator. *)
(* Positions are one coordinate of the source's Vector3.                   *)
(* Rust arrays and Vecs are functions over 0 .. len-1, as in the source.   *)
(***************************************************************************)
EXTENDS Integers, Sequences, FiniteSets, TLC

VARIABLES
    cmds,                \* names the client core has put into the CmdRegistry
    compose,             \* ConnectionKind::Server.compose: commands written, not yet sent
    sent,                \* commands handed to qsock.begin_send_msg, in order
    attempt,             \* Client::connect: connect requests sent so far
    reply,               \* Client::connect: what recv_response returned last
    response,            \* Client::connect: the local `response`
    conn,                \* Client.conn is Some(Connection)
    recv_mode,           \* the BlockingMode of the last qsock.recv_msg ("None" before it)
    status,              \* the ConnectionStatus parse_server_msg returned last
    cl_nolerp,           \* the value of the cvar "cl_nolerp" (0 unless set)
    components,          \* Vfs.components, in registration order
    opened,              \* the last call of Vfs::open and what it returned
    data,                \* Progs.data, a boxed slice of bytes
    progs_op,            \* the last call on the Progs and what it returned
    frame_time,          \* the frame_time argument of the last call of Connection::frame
    kind,                \* ConnectionKind: "Server" or "Demo"
    signon,              \* Connection.signon : SignOnStage
    pc,                  \* position of Connection::frame
    cmd,                 \* the ServerCmd deserialized and about to be matched
    result,              \* what the last (or current) call of frame returned
    demo_left,           \* messages the DemoServer has not yet handed out
    time,                \* ClientState.time
    msg_times,           \* ClientState.msg_times
    lerp_factor,         \* ClientState.lerp_factor
    start_time,          \* ClientState.start_time
    entities,            \* ClientState.entities
    visible_entity_ids,  \* ClientState.visible_entity_ids
    temp_entities,       \* ClientState.temp_entities (origins of the segments)
    beams,               \* ClientState.beams
    models,              \* ClientState.models (the name each was loaded from)
    model_names,         \* ClientState.model_names
    num_sounds,          \* ClientState.sounds.len()
    max_players,         \* ClientState.max_players
    view_entity,         \* ClientState.view.entity_id()
    cshift_percent,      \* ClientState.color_shifts[Damage].percent
    items,               \* ClientState.items (the bits of the ItemFlags)
    item_get_time,       \* ClientState.item_get_time
    player_info,         \* ClientState.player_info
    bonus_percent,       \* ClientState.color_shifts[Bonus].percent
    static_entities,     \* ClientState.static_entities (their model ids)
    channels             \* ClientState.mixer.channels

connectVars == <<attempt, reply, response>>
outVars == <<compose, sent>>
regVars == <<cmds, outVars, connectVars>>
\* What no step of a connection writes: the cvar, the Vfs and the Progs.
cvarVars == <<cl_nolerp, components, opened, data, progs_op>>
\* What the host passes to Connection::frame.
hostVars == <<cvarVars, frame_time>>
connVars == <<conn, recv_mode, status, hostVars, kind, signon, pc, cmd, result, demo_left>>
timeVars == <<time, msg_times, lerp_factor, start_time>>
entVars == <<entities, visible_entity_ids, temp_entities, beams>>
hudVars == <<cshift_percent, items, item_get_time, player_info, bonus_percent,
            static_entities>>
tableVars == <<models, model_names, num_sounds, max_players, view_entity, hudVars>>
storeVars == <<timeVars, entVars, tableVars, channels>>
vars == <<regVars, connVars, storeVars>>

(***************************************************************************)
(* Bounds of the model and constants of the program.                       *)
(***************************************************************************)
\* Server timestamps and frame times are multiples of Tick milliseconds.
Tick == 50
\* No timestamp of a frame exceeds MaxTicks * Tick.
MaxTicks == 2
\* The largest entity id a server command names.
MaxEnt == 2
\* The number of messages a recorded demo holds.
MaxDemoMsgs == 2
\* The frame time of SpecDemo, in milliseconds: half a server tick.
DemoFrame == 25
MaxInterpTicks == 3
MaxMixerTicks == 1
MaxBeamTicks == 5
\* A quarter of the server delta of SpecLink, in milliseconds.
LinkStep == 25
\* Beam slots (entity::MAX_BEAMS, scaled down).
MAX_BEAMS == 2
\* Sound channels (MAX_CHANNELS, 128 in the source, scaled down).
MAX_CHANNELS == 3
\* net::MAX_ITEMS, the length of item_get_time, scaled down.
MAX_ITEMS == 2
\* net::MAX_CLIENTS, the length of player_info, scaled down.
MAX_CLIENTS == 3
\* mod.rs 74
MAX_CONNECT_ATTEMPTS == 3
\* std::u16::MAX
U16_MAX == 65535
\* Transient entities (entity::MAX_TEMP_ENTITIES, scaled down).
MAX_TEMP_ENTITIES == 3
\* net::PROTOCOL_VERSION, compared in the ServerInfo and Version handlers.
PROTOCOL_VERSION == 15
\* The cap on the server delta in update_interp_ratio, in milliseconds.
ServerDeltaCapMs == 100
\* The lifetime of a beam, in milliseconds.
BeamTtlMs == 200
\* The distance between two beam segments.
BeamSegmentLen == 30
\* Squared displacement beyond which an entity is taken to have teleported.
TeleportDist2 == 10000

Times(ticks) == {k * Tick : k \in 0 .. ticks}

None == [some |-> FALSE]
Some(x) == [some |-> TRUE, val |-> x]

(***************************************************************************)
(* Vec and array helpers.                                                  *)
(***************************************************************************)
EmptyVec == <<>>
VecLen(v) == Cardinality(DOMAIN v)
VecPush(v, x) == [i \in 0 .. VecLen(v) |-> IF i < VecLen(v) THEN v[i] ELSE x]
SeqRange(s) == {s[i] : i \in DOMAIN s}

(***************************************************************************)
(* Exact rationals.                                                        *)
(***************************************************************************)
Abs(x) == IF x < 0 THEN -x ELSE x

RECURSIVE Gcd(_, _)
Gcd(a, b) == IF b = 0 THEN a ELSE Gcd(b, a % b)

\* n / d for d # 0, in lowest terms with a positive denominator.
Ratio(n, d) ==
    LET s == IF d < 0 THEN -1 ELSE 1
        g == Gcd(Abs(n), Abs(d))
    IN  <<(s * n) \div g, (s * d) \div g>>

RInt(n) == <<n, 1>>
RLess(a, b) == a[1] * b[2] < b[1] * a[2]
RAdd(a, b) == Ratio(a[1] * b[2] + b[1] * a[2], a[2] * b[2])
RSub(a, b) == Ratio(a[1] * b[2] - b[1] * a[2], a[2] * b[2])
RMul(a, b) == Ratio(a[1] * b[1], a[2] * b[2])
RAbs(a) == <<Abs(a[1]), a[2]>>
\* Truncation toward zero of a non-negative rational (an `as i32` cast).
RTrunc(a) == a[1] \div a[2]
RSign(a) == IF a[1] < 0 THEN -1 ELSE IF a[1] > 0 THEN 1 ELSE 0
\* Deg::normalize: the angle brought into [0, 360).
RNormalize(a) == Ratio(a[1] % (360 * a[2]), a[2])

(***************************************************************************)
(* ClientState::update_interp_ratio: the new time, msg_times and           *)
(* lerp_factor from the render time t, the timestamps mt and the cvar.     *)
(***************************************************************************)
InterpState(t, mt, lf) == [time |-> t, msg_times |-> mt, lerp_factor |-> lf]

\* The branch taken when interpolation is enabled (state.rs 219-265).
InterpRatio(t, mt) ==
    LET d == mt[0] - mt[1] IN
    IF d = 0
    THEN InterpState(mt[0], mt, RInt(1))
    ELSE LET mt2 == IF d > ServerDeltaCapMs
                    THEN [mt EXCEPT ![1] = mt[0] - ServerDeltaCapMs]
                    ELSE mt
             server_delta == IF d > ServerDeltaCapMs THEN ServerDeltaCapMs ELSE d
             frame_delta == t - mt2[1]
             f == Ratio(frame_delta, server_delta)
         IN  IF RLess(f, RInt(0))
             THEN InterpState(IF RLess(f, <<-1, 100>>) THEN mt2[1] ELSE t,
                              mt2, RInt(0))
             ELSE IF RLess(RInt(1), f)
             THEN InterpState(IF RLess(<<101, 100>>, f) THEN mt2[0] ELSE t,
                              mt2, RInt(1))
             ELSE InterpState(t, mt2, f)

\* The cvar is ignored: the ratio is computed even when cl_nolerp is set.
update_interp_ratio_ignores_nolerp(t, mt, nolerp) == InterpRatio(t, mt)

\* The ratio is stored without the clamp to [0, 1].
update_interp_ratio_unclamped(t, mt, nolerp) ==
    IF nolerp # 0 \/ mt[0] = mt[1]
    THEN InterpState(mt[0], mt, RInt(1))
    ELSE LET mt2 == IF mt[0] - mt[1] > ServerDeltaCapMs
                    THEN [mt EXCEPT ![1] = mt[0] - ServerDeltaCapMs]
                    ELSE mt
         IN  InterpState(t, mt2, Ratio(t - mt2[1], mt2[0] - mt2[1]))

\* A render time short of the newest timestamp is put back to the older one.
update_interp_ratio_holds_back(t, mt, nolerp) ==
    LET r == IF nolerp # 0 THEN InterpState(mt[0], mt, RInt(1)) ELSE InterpRatio(t, mt)
    IN  IF r.time < r.msg_times[0] THEN [r EXCEPT !.time = r.msg_times[1]] ELSE r

\* The render time is never snapped back to a timestamp.
update_interp_ratio_no_snap(t, mt, nolerp) ==
    LET r == IF nolerp # 0 THEN InterpState(mt[0], mt, RInt(1)) ELSE InterpRatio(t, mt)
    IN  IF nolerp # 0 \/ mt[0] = mt[1] THEN r ELSE [r EXCEPT !.time = t]

update_interp_ratio(t, mt, nolerp) ==
    IF nolerp # 0
    THEN InterpState(mt[0], mt, RInt(1))
    ELSE InterpRatio(t, mt)

(***************************************************************************)
(* Mixer::find_free_channel and Mixer::start_sound.  A channel is          *)
(* [start_time, ent_id, ent_channel, in_use]; in_use is Channel::in_use(), *)
(* true from play() until the sink has drained.                            *)
(***************************************************************************)
ClientChannel(t, e, c) ==
    [start_time |-> t, ent_id |-> e, ent_channel |-> c, in_use |-> TRUE]

RECURSIVE FindFreeFrom(_, _, _, _, _)
FindFreeFrom(chs, i, oldest, ent_id, ent_channel) ==
    IF i >= MAX_CHANNELS THEN oldest
    ELSE IF ~chs[i].some THEN i
    ELSE LET chan == chs[i].val IN
         IF ~chan.in_use THEN i
         ELSE IF /\ ent_channel # 0
                 /\ chan.ent_id = ent_id
                 /\ (chan.ent_channel = ent_channel \/ ent_channel = -1)
         THEN i
         ELSE FindFreeFrom(chs, i + 1,
                           IF chs[oldest].some
                           THEN IF chan.start_time < chs[oldest].val.start_time
                                THEN i ELSE oldest
                           ELSE i,
                           ent_id, ent_channel)

\* The newest-started slot is evicted instead of the oldest.
RECURSIVE FindFreeNewest(_, _, _, _, _)
FindFreeNewest(chs, i, newest, ent_id, ent_channel) ==
    IF i >= MAX_CHANNELS THEN newest
    ELSE IF ~chs[i].some \/ ~chs[i].val.in_use THEN i
    ELSE IF /\ ent_channel # 0
            /\ chs[i].val.ent_id = ent_id
            /\ (chs[i].val.ent_channel = ent_channel \/ ent_channel = -1)
    THEN i
    ELSE FindFreeNewest(chs, i + 1,
                        IF chs[i].val.start_time > chs[newest].val.start_time
                        THEN i ELSE newest,
                        ent_id, ent_channel)

find_free_channel_newest(chs, ent_id, ent_channel) ==
    FindFreeNewest(chs, 0, 0, ent_id, ent_channel)

\* Every request is treated as the wildcard request of its entity.
find_free_channel_wildcard(chs, ent_id, ent_channel) ==
    FindFreeFrom(chs, 0, 0, ent_id, -1)

find_free_channel(chs, ent_id, ent_channel) ==
    FindFreeFrom(chs, 0, 0, ent_id, ent_channel)

start_sound(chs, t, ent_id, ent_channel) ==
    [chs EXCEPT ![find_free_channel(chs, ent_id, ent_channel)] =
                    Some(ClientChannel(t, ent_id, ent_channel))]

(***************************************************************************)
(* Entities.  An entity is [model_id, msg_time, force_link, msg_origins,   *)
(* origin, msg_angles, angles], the angles being those of one axis in      *)
(* whole degrees.  An update is the EntityUpdate with its absent fields    *)
(* filled in: [ent_id, model_id, origin, angle, relink].                   *)
(***************************************************************************)
\* ClientEntity::from_baseline
from_baseline(model_id, origin) ==
    [model_id |-> model_id, msg_time |-> 0, force_link |-> TRUE,
     msg_origins |-> [i \in {0, 1} |-> 0], origin |-> RInt(origin),
     msg_angles |-> [i \in {0, 1} |-> 0], angles |-> RInt(0)]

\* ClientEntity::uninitialized
uninitialized ==
    [model_id |-> 0, msg_time |-> 0, force_link |-> FALSE,
     msg_origins |-> [i \in {0, 1} |-> 0], origin |-> RInt(0),
     msg_angles |-> [i \in {0, 1} |-> 0], angles |-> RInt(0)]

\* ClientEntity::update
entity_update(ent, mt, update) ==
    [ent EXCEPT !.model_id = update.model_id,
                !.msg_time = mt[0],
                !.force_link = update.relink,
                !.msg_origins = [i \in {0, 1} |->
                                    IF i = 0 THEN update.origin
                                    ELSE ent.msg_origins[0]],
                !.msg_angles = [i \in {0, 1} |->
                                   IF i = 0 THEN update.angle
                                   ELSE ent.msg_angles[0]]]

RECURSIVE PushUninitialized(_, _)
PushUninitialized(ents, id) ==
    IF VecLen(ents) >= id THEN ents
    ELSE PushUninitialized(VecPush(ents, uninitialized), id)

\* ClientState::spawn_entities
spawn_entities(ents, id, model_id, origin) ==
    IF id < VecLen(ents)
    THEN [outcome |-> "EntityExists", entities |-> ents]
    ELSE [outcome |-> "Ok",
          entities |-> VecPush(PushUninitialized(ents, id),
                               from_baseline(model_id, origin))]

\* ClientState::update_entity.  Indexing entities[id] or models[model_id]
\* out of bounds panics.
update_entity(ents, id, update, mt, nmodels) ==
    LET spawned == IF id > VecLen(ents)
                   THEN spawn_entities(ents, id, update.model_id, update.origin)
                   ELSE [outcome |-> "Ok", entities |-> ents]
        ents1 == spawned.entities
    IN  IF spawned.outcome # "Ok" THEN spawned
        ELSE IF id >= VecLen(ents1)
        THEN [outcome |-> "panic", entities |-> ents1]
        ELSE LET entity == entity_update(ents1[id], mt, update) IN
             IF entity.model_id # ents1[id].model_id /\ entity.model_id >= nmodels
             THEN [outcome |-> "panic", entities |-> ents1]
             ELSE [outcome |-> "Ok", entities |-> [ents1 EXCEPT ![id] = entity]]

\* The factor one entity is interpolated with (state.rs 321-328).
ent_lerp_factor(ent, lf) ==
    LET origin_delta == ent.msg_origins[0] - ent.msg_origins[1]
    IN  IF origin_delta * origin_delta > TeleportDist2 THEN RInt(1) ELSE lf

\* The turn from the previous angle to the newest one (state.rs 337-342).
angle_delta(ent) ==
    LET d == ent.msg_angles[0] - ent.msg_angles[1]
    IN  IF d > 180 THEN 360 - d
        ELSE IF d < -180 THEN 360 + d
        ELSE d

\* The origin and angles of one entity under the factor elf (state.rs
\* 316-346), and the flag cleared at line 445.
link_with(ent, elf) ==
    [ent EXCEPT !.origin = IF ent.force_link
                           THEN RInt(ent.msg_origins[0])
                           ELSE RAdd(RInt(ent.msg_origins[1]),
                                     RMul(elf, RInt(ent.msg_origins[0]
                                                    - ent.msg_origins[1]))),
                !.angles = IF ent.force_link
                           THEN RInt(ent.msg_angles[0])
                           ELSE RNormalize(RAdd(RInt(ent.msg_angles[1]),
                                                RMul(RInt(angle_delta(ent)), elf))),
                !.force_link = FALSE]

\* No displacement is taken for a teleport.
link_entity_never_teleports(ent, lf) == link_with(ent, lf)

\* The interpolation of one entity (state.rs 314-347, 445).
link_entity(ent, lf) == link_with(ent, ent_lerp_factor(ent, lf))

\* The loop of update_entities over the entities from ent_id on.
RECURSIVE EntityLoop(_, _, _, _, _, _)
EntityLoop(ent_id, ents, visible, mt, lf, nmodels) ==
    IF ent_id >= VecLen(ents)
    THEN [outcome |-> "Ok", entities |-> ents, visible_entity_ids |-> visible]
    ELSE LET ent == ents[ent_id] IN
         IF ent.model_id = 0
         THEN EntityLoop(ent_id + 1, ents, visible, mt, lf, nmodels)
         ELSE IF ent.msg_time # mt[0]
         THEN EntityLoop(ent_id + 1, [ents EXCEPT ![ent_id].model_id = 0],
                         visible, mt, lf, nmodels)
         ELSE IF ent.model_id >= nmodels
         THEN [outcome |-> "panic", entities |-> ents,
               visible_entity_ids |-> visible]
         ELSE EntityLoop(ent_id + 1,
                         [ents EXCEPT ![ent_id] = link_entity(ent, lf)],
                         Append(visible, ent_id), mt, lf, nmodels)

\* The test of the entity's timestamp is dropped: a stale entity stays live.
RECURSIVE EntityLoopKeepsStale(_, _, _, _, _, _)
EntityLoopKeepsStale(ent_id, ents, visible, mt, lf, nmodels) ==
    IF ent_id >= VecLen(ents)
    THEN [outcome |-> "Ok", entities |-> ents, visible_entity_ids |-> visible]
    ELSE LET ent == ents[ent_id] IN
         IF ent.model_id = 0
         THEN EntityLoopKeepsStale(ent_id + 1, ents, visible, mt, lf, nmodels)
         ELSE IF ent.model_id >= nmodels
         THEN [outcome |-> "panic", entities |-> ents,
               visible_entity_ids |-> visible]
         ELSE EntityLoopKeepsStale(ent_id + 1,
                                   [ents EXCEPT ![ent_id] = link_entity(ent, lf)],
                                   Append(visible, ent_id), mt, lf, nmodels)

update_entities_keeps_stale(ents, mt, lf, nmodels) ==
    IF VecLen(ents) <= 1
    THEN [outcome |-> "Ok", entities |-> ents, visible_entity_ids |-> <<>>]
    ELSE EntityLoopKeepsStale(1, ents, <<>>, mt, lf, nmodels)

\* ClientState::update_entities
update_entities(ents, mt, lf, nmodels) ==
    IF VecLen(ents) <= 1
    THEN [outcome |-> "Ok", entities |-> ents, visible_entity_ids |-> <<>>]
    ELSE EntityLoop(1, ents, <<>>, mt, lf, nmodels)

(***************************************************************************)
(* Beams.  A beam is [entity_id, model_id, expire, start, end].            *)
(***************************************************************************)
Beam(t, entity_id, model_id, start, end) ==
    [entity_id |-> entity_id, model_id |-> model_id, expire |-> t + BeamTtlMs,
     start |-> start, end |-> end]

\* The loop of spawn_beam over the slots from i on (state.rs 813-825).
RECURSIVE SpawnBeamLoop(_, _, _, _)
SpawnBeamLoop(i, bms, free, beam) ==
    IF i >= MAX_BEAMS THEN [beams |-> bms, free |-> free]
    ELSE IF bms[i].some
    THEN SpawnBeamLoop(i + 1,
                       IF bms[i].val.entity_id = beam.entity_id
                       THEN [bms EXCEPT ![i] = Some(beam)] ELSE bms,
                       free, beam)
    ELSE SpawnBeamLoop(i + 1, bms, IF free.some THEN free ELSE Some(i), beam)

\* The new beam goes to the last free slot the scan saw.
spawn_beam_last_free(bms, t, entity_id, model_id, start, end) ==
    LET beam == Beam(t, entity_id, model_id, start, end)
        r == SpawnBeamLoop(0, bms, None, beam)
        free == {i \in 0 .. MAX_BEAMS - 1 : ~bms[i].some}
    IN  IF free # {}
        THEN [r.beams EXCEPT ![CHOOSE i \in free : \A j \in free : j <= i] = Some(beam)]
        ELSE r.beams

\* ClientState::spawn_beam
spawn_beam(bms, t, entity_id, model_id, start, end) ==
    LET beam == Beam(t, entity_id, model_id, start, end)
        r == SpawnBeamLoop(0, bms, None, beam)
    IN  IF r.free.some THEN [r.beams EXCEPT ![r.free.val] = Some(beam)]
        ELSE r.beams

\* Every segment is kept, however many there are.
RECURSIVE BeamSegmentsUncapped(_, _, _, _, _)
BeamSegmentsUncapped(interval, n, start, direction, temps) ==
    IF interval >= n THEN temps
    ELSE BeamSegmentsUncapped(interval + 1, n, start, direction,
                              Append(temps,
                                     RAdd(start,
                                          RInt(BeamSegmentLen * interval * direction))))

\* The segments of one beam (state.rs 513-527).
RECURSIVE BeamSegments(_, _, _, _, _)
BeamSegments(interval, n, start, direction, temps) ==
    IF interval >= n THEN temps
    ELSE BeamSegments(interval + 1, n, start, direction,
                      IF Len(temps) < MAX_TEMP_ENTITIES
                      THEN Append(temps,
                                  RAdd(start,
                                       RInt(BeamSegmentLen * interval * direction)))
                      ELSE temps)

\* The loop of update_temp_entities over the slots from id on.
RECURSIVE TempEntityLoop(_, _, _, _, _, _)
TempEntityLoop(id, bms, temps, t, view_ent, ents) ==
    IF id >= MAX_BEAMS
    THEN [outcome |-> "Ok", beams |-> bms, temp_entities |-> temps]
    ELSE IF ~bms[id].some
    THEN TempEntityLoop(id + 1, bms, temps, t, view_ent, ents)
    ELSE IF bms[id].val.expire < t
    THEN TempEntityLoop(id + 1, [bms EXCEPT ![id] = None], temps, t, view_ent, ents)
    ELSE IF bms[id].val.entity_id = view_ent /\ view_ent >= VecLen(ents)
    THEN [outcome |-> "panic", beams |-> bms, temp_entities |-> temps]
    ELSE LET beam == bms[id].val
             start == IF beam.entity_id = view_ent
                      THEN ents[view_ent].origin ELSE beam.start
             vec == RSub(beam.end, start)
             n == RTrunc(RMul(RAbs(vec), <<1, BeamSegmentLen>>))
         IN  TempEntityLoop(id + 1,
                            [bms EXCEPT ![id] = Some([beam EXCEPT !.start = start])],
                            BeamSegments(0, n, start, RSign(vec), temps),
                            t, view_ent, ents)

\* ClientState::update_temp_entities
update_temp_entities(bms, t, view_ent, ents) ==
    TempEntityLoop(0, bms, <<>>, t, view_ent, ents)

(***************************************************************************)
(* The model and sound precache built by ClientState::from_server_info.    *)
(* A model is known by the name it was loaded from; a name ending in .bsp  *)
(* is a brush model, loaded here as one model of that name; a name         *)
(* starting with * is skipped.                                             *)
(***************************************************************************)
BspNames == {"maps/start.bsp"}
StarNames == {"*1"}

RECURSIVE PrecacheModels(_, _, _)
PrecacheModels(names, i, acc) ==
    IF i > Len(names) THEN acc
    ELSE PrecacheModels(names, i + 1,
                        IF names[i] \in StarNames THEN acc
                        ELSE [models |-> VecPush(acc.models, names[i]),
                              model_names |->
                                  [n \in DOMAIN acc.model_names \cup {names[i]} |->
                                      IF n = names[i] THEN VecLen(acc.models)
                                      ELSE acc.model_names[n]]])

NoModels == [models |-> [i \in {0} |-> "none"], model_names |-> <<>>]

\* ClientState::new
ClientState_new ==
    [time |-> 0,
     msg_times |-> [i \in {0, 1} |-> 0],
     lerp_factor |-> RInt(0),
     start_time |-> 0,
     entities |-> EmptyVec,
     visible_entity_ids |-> <<>>,
     temp_entities |-> <<>>,
     beams |-> [i \in 0 .. MAX_BEAMS - 1 |-> None],
     models |-> NoModels.models,
     model_names |-> NoModels.model_names,
     num_sounds |-> 0,
     max_players |-> 0,
     view_entity |-> 0,
     cshift_percent |-> 0,
     items |-> 0,
     item_get_time |-> [i \in 0 .. MAX_ITEMS - 1 |-> 0],
     player_info |-> [i \in 0 .. MAX_CLIENTS - 1 |-> None],
     bonus_percent |-> 0,
     static_entities |-> <<>>,
     channels |-> [i \in 0 .. MAX_CHANNELS - 1 |-> None]]

\* ClientState::from_server_info, when every file loads.
from_server_info(max_clients, model_precache, sound_precache) ==
    LET loaded == PrecacheModels(model_precache, 1, NoModels) IN
    [ClientState_new EXCEPT !.models = loaded.models,
                            !.model_names = loaded.model_names,
                            !.num_sounds = 1 + Len(sound_precache),
                            !.max_players = max_clients]

\* The store as one value, and the assignment of one.
Store ==
    [time |-> time, msg_times |-> msg_times, lerp_factor |-> lerp_factor,
     start_time |-> start_time, entities |-> entities,
     visible_entity_ids |-> visible_entity_ids, temp_entities |-> temp_entities,
     beams |-> beams, models |-> models, model_names |-> model_names,
     num_sounds |-> num_sounds, max_players |-> max_players,
     view_entity |-> view_entity, cshift_percent |-> cshift_percent,
     items |-> items, item_get_time |-> item_get_time,
     player_info |-> player_info, bonus_percent |-> bonus_percent,
     static_entities |-> static_entities, channels |-> channels]

\* No ClientState exists: every field is absent.
NoStore == [f \in DOMAIN ClientState_new |-> None]

StoreIs(st) ==
    /\ time = st.time
    /\ msg_times = st.msg_times
    /\ lerp_factor = st.lerp_factor
    /\ start_time = st.start_time
    /\ entities = st.entities
    /\ visible_entity_ids = st.visible_entity_ids
    /\ temp_entities = st.temp_entities
    /\ beams = st.beams
    /\ models = st.models
    /\ model_names = st.model_names
    /\ num_sounds = st.num_sounds
    /\ max_players = st.max_players
    /\ view_entity = st.view_entity
    /\ cshift_percent = st.cshift_percent
    /\ items = st.items
    /\ item_get_time = st.item_get_time
    /\ player_info = st.player_info
    /\ bonus_percent = st.bonus_percent
    /\ static_entities = st.static_entities
    /\ channels = st.channels

SetStore(st) ==
    /\ time' = st.time
    /\ msg_times' = st.msg_times
    /\ lerp_factor' = st.lerp_factor
    /\ start_time' = st.start_time
    /\ entities' = st.entities
    /\ visible_entity_ids' = st.visible_entity_ids
    /\ temp_entities' = st.temp_entities
    /\ beams' = st.beams
    /\ models' = st.models
    /\ model_names' = st.model_names
    /\ num_sounds' = st.num_sounds
    /\ max_players' = st.max_players
    /\ view_entity' = st.view_entity
    /\ cshift_percent' = st.cshift_percent
    /\ items' = st.items
    /\ item_get_time' = st.item_get_time
    /\ player_info' = st.player_info
    /\ bonus_percent' = st.bonus_percent
    /\ static_entities' = st.static_entities
    /\ channels' = st.channels

(***************************************************************************)
(* Connection::frame.  pc is "idle" between two calls, "parse" at the head *)
(* of the loop of parse_server_msg, "dispatch" with a command in hand,     *)
(* then "interp", "ents", "temps" and "post" before update_interp_ratio,   *)
(* update_entities, update_temp_entities and the rest of frame, and        *)
(* "panic" once the process has aborted.                                   *)
(***************************************************************************)
NoCmd == [tag |-> "None"]
\* The camera angle a demo message carries beside its commands (one axis).
DemoViewAngle == 0
SignOnStages == {"Not", "Prespawn", "ClientInfo", "Begin", "Done"}

\* The handler returns to the loop of parse_server_msg.
Continue ==
    /\ pc' = "parse"
    /\ cmd' = NoCmd
    /\ UNCHANGED <<connectVars, conn, recv_mode, status, hostVars, kind, result, demo_left>>

\* The handler returns Err, which `?` passes through parse_server_msg and frame.
Fail(err) ==
    /\ pc' = "idle"
    /\ cmd' = NoCmd
    /\ result' = err
    /\ UNCHANGED <<connectVars, conn, recv_mode, status, hostVars, kind, demo_left>>

\* The handler panics.
Panic ==
    /\ pc' = "panic"
    /\ UNCHANGED <<connectVars, conn, recv_mode, status, hostVars, kind, cmd, result, demo_left>>

\* Every stage but Done gives the server up to five seconds to respond.
blocking_mode_always_timeout(stage) == "Timeout"

\* The BlockingMode of the receive on a live connection (mod.rs 333-340).
blocking_mode(stage) == IF stage = "Done" THEN "NonBlocking" ELSE "Timeout"

\* advance_time, then the receive of parse_server_msg on a live connection:
\* a message with commands, or an empty one (Maintain).
FrameServer(ft, empty, max_time) ==
    /\ pc = "idle"
    /\ kind = "Server"
    /\ time + ft <= max_time
    /\ frame_time' = ft
    /\ time' = time + ft
    /\ recv_mode' = blocking_mode(signon)
    /\ pc' = IF empty THEN "interp" ELSE "parse"
    /\ status' = "Maintain"
    /\ UNCHANGED <<regVars, conn, cvarVars, kind, signon, cmd, result, demo_left>>
    /\ UNCHANGED <<msg_times, lerp_factor, start_time, entVars, tableVars, channels>>

\* The next recorded message is taken whatever the render time is.
demo_ready_always(t, mt) == TRUE

\* The demo asks for its next message only once the render time has reached
\* the time of the previous one (mod.rs 348).
demo_ready(t, mt) == t >= mt[0]

\* advance_time, then the receive of parse_server_msg in demo playback.
FrameDemo(ft, max_time) ==
    /\ pc = "idle"
    /\ kind = "Demo"
    /\ time + ft <= max_time
    /\ frame_time' = ft
    /\ time' = time + ft
    /\ IF demo_ready(time', msg_times)
       THEN IF demo_left > 0
            THEN pc' = "parse" /\ demo_left' = demo_left - 1
            ELSE pc' = "interp" /\ demo_left' = demo_left
       ELSE pc' = "interp" /\ demo_left' = demo_left
    /\ status' = IF demo_ready(time', msg_times) /\ demo_left = 0
                 THEN "Disconnect" ELSE "Maintain"
    /\ UNCHANGED <<regVars, conn, recv_mode, cvarVars, kind, signon, cmd, result>>
    /\ UNCHANGED <<msg_times, lerp_factor, start_time, entVars, tableVars, channels>>

\* Connection::handle_signon: the client commands it serializes into compose
\* (mod.rs 280-309), one name per ClientCmd::StringCmd.
signon_cmds(k, stage) ==
    IF k # "Server" THEN <<>>
    ELSE CASE stage = "Prespawn"   -> <<"prespawn">>
           [] stage = "ClientInfo" -> <<"name", "color", "spawn">>
           [] stage = "Begin"      -> <<"begin">>
           [] OTHER                -> <<>>

\* The outgoing stream is unbounded in the code: the model stops decoding a
\* sign-on stage whose commands would take the connection past `room`
\* emitted client commands.  MaxOut holds a whole sign-on (prespawn, name,
\* color, spawn, begin); SignOnOut holds one command.
MaxOut == 5
SignOnOut == 1
OutRoom(c, room) ==
    c.tag = "SignOnStage" =>
        Len(sent) + Len(compose) + Len(signon_cmds(kind, c.stage)) <= room

\* ServerCmd::deserialize yields the next command of the message.
DecodeWithin(alphabet, room) ==
    /\ pc = "parse"
    /\ \E c \in alphabet : OutRoom(c, room) /\ cmd' = c
    /\ pc' = "dispatch"
    /\ UNCHANGED <<regVars, conn, recv_mode, status, hostVars, kind, signon, result, demo_left, storeVars>>

Decode(alphabet) == DecodeWithin(alphabet, MaxOut)

\* ServerCmd::deserialize yields None: the message is spent.
EndOfMessage ==
    /\ pc = "parse"
    /\ pc' = "interp"
    /\ status' = "Maintain"
    /\ UNCHANGED <<regVars, conn, recv_mode, hostVars, kind, signon, cmd, result, demo_left, storeVars>>

(***************************************************************************)
(* The command handlers of parse_server_msg.                               *)
(***************************************************************************)
\* Connection::handle_signon: the start_time it leaves (the stage itself is
\* set by the caller below, as line 316 does for every kind of connection).
handle_signon(k, stage, st, t) ==
    IF k = "Server" /\ stage = "Done" THEN t ELSE st

\* ServerCmd::SignOnStage
DispatchSignOnStage ==
    /\ pc = "dispatch" /\ cmd.tag = "SignOnStage"
    /\ UNCHANGED <<cmds, sent>>
    /\ compose' = compose \o signon_cmds(kind, cmd.stage)
    /\ start_time' = handle_signon(kind, cmd.stage, start_time, time)
    /\ signon' = cmd.stage
    /\ Continue
    /\ UNCHANGED <<time, msg_times, lerp_factor, entVars, tableVars, channels>>

\* ServerCmd::FastUpdate
DispatchFastUpdate ==
    /\ pc = "dispatch" /\ cmd.tag = "FastUpdate"
    /\ UNCHANGED <<cmds, outVars>>
    /\ IF signon = "Begin"
       THEN /\ signon' = "Done"
            /\ start_time' = handle_signon(kind, "Done", start_time, time)
       ELSE UNCHANGED <<signon, start_time>>
    /\ LET r == update_entity(entities, cmd.ent_id, cmd, msg_times, VecLen(models))
       IN  /\ entities' = IF /\ kind = "Demo"
                              /\ r.outcome = "Ok"
                              /\ cmd.ent_id = view_entity
                           THEN [r.entities EXCEPT
                                    ![cmd.ent_id].msg_angles[0] = DemoViewAngle]
                           ELSE r.entities
           /\ IF r.outcome = "panic" THEN Panic ELSE Continue
    /\ UNCHANGED <<time, msg_times, lerp_factor, visible_entity_ids,
                   temp_entities, beams, tableVars, channels>>

\* Only the player slots are looked at, never the entity table.
set_view_rejects_beyond_players(n, players, len) == n <= 0 \/ n > players

\* The test of the SetView handler (mod.rs 642-644).
set_view_rejects(n, players, len) == n <= 0 \/ (n > players /\ n >= len)

\* ServerCmd::SetView
DispatchSetView ==
    /\ pc = "dispatch" /\ cmd.tag = "SetView"
    /\ UNCHANGED <<cmds, outVars>>
    /\ IF set_view_rejects(cmd.ent_id, max_players, VecLen(entities))
       THEN Fail("InvalidViewEntity") /\ UNCHANGED view_entity
       ELSE view_entity' = cmd.ent_id /\ Continue
    /\ UNCHANGED <<signon, timeVars, entVars, models, model_names, num_sounds,
                   max_players, hudVars, channels>>

\* ServerCmd::Time
DispatchTime ==
    /\ pc = "dispatch" /\ cmd.tag = "Time"
    /\ UNCHANGED <<cmds, outVars>>
    /\ msg_times' = [i \in {0, 1} |-> IF i = 0 THEN cmd.time ELSE msg_times[0]]
    /\ Continue
    /\ UNCHANGED <<signon, time, lerp_factor, start_time, entVars, tableVars, channels>>

\* The store is rebuilt before the protocol version is looked at.
server_info_checks_late(st, c) ==
    IF ~c.load_ok
    THEN [outcome |-> "LoadError", store |-> st]
    ELSE [outcome |-> IF c.protocol_version # PROTOCOL_VERSION
                      THEN "UnrecognizedProtocol" ELSE "Ok",
          store |-> from_server_info(c.max_clients, c.model_precache,
                                     c.sound_precache)]

\* The roster outlives the change of level.
server_info_keeps_roster(st, c) ==
    IF c.protocol_version # PROTOCOL_VERSION
    THEN [outcome |-> "UnrecognizedProtocol", store |-> st]
    ELSE IF ~c.load_ok
    THEN [outcome |-> "LoadError", store |-> st]
    ELSE [outcome |-> "Ok",
          store |-> [from_server_info(c.max_clients, c.model_precache,
                                      c.sound_precache)
                        EXCEPT !.player_info = st.player_info]]

\* The list of visible ids outlives the change of level.
server_info_keeps_visible(st, c) ==
    IF c.protocol_version # PROTOCOL_VERSION
    THEN [outcome |-> "UnrecognizedProtocol", store |-> st]
    ELSE IF ~c.load_ok
    THEN [outcome |-> "LoadError", store |-> st]
    ELSE [outcome |-> "Ok",
          store |-> [from_server_info(c.max_clients, c.model_precache,
                                      c.sound_precache)
                        EXCEPT !.visible_entity_ids = st.visible_entity_ids]]

\* ServerCmd::ServerInfo: what the handler returns and the store it leaves.
server_info(st, c) ==
    IF c.protocol_version # PROTOCOL_VERSION
    THEN [outcome |-> "UnrecognizedProtocol", store |-> st]
    ELSE IF ~c.load_ok
    THEN [outcome |-> "LoadError", store |-> st]
    ELSE [outcome |-> "Ok",
          store |-> from_server_info(c.max_clients, c.model_precache,
                                     c.sound_precache)]

DispatchServerInfo ==
    /\ pc = "dispatch" /\ cmd.tag = "ServerInfo"
    /\ LET r == server_info(Store, cmd)
       IN  /\ SetStore(r.store)
           /\ cmds' = IF r.outcome = "Ok" THEN cmds \cup {"bf"} ELSE cmds
           /\ UNCHANGED outVars
           /\ IF r.outcome = "Ok" THEN Continue ELSE Fail(r.outcome)
    /\ UNCHANGED signon

\* ServerCmd::SpawnBaseline
DispatchSpawnBaseline ==
    /\ pc = "dispatch" /\ cmd.tag = "SpawnBaseline"
    /\ UNCHANGED <<cmds, outVars>>
    /\ LET r == spawn_entities(entities, cmd.ent_id, cmd.model_id, cmd.origin)
       IN  /\ entities' = r.entities
           /\ IF r.outcome = "Ok" THEN Continue ELSE Fail(r.outcome)
    /\ UNCHANGED <<signon, timeVars, visible_entity_ids, temp_entities, beams,
                   tableVars, channels>>

\* client::entity::MAX_STATIC_ENTITIES (imported at mod.rs 45), scaled down.
MAX_STATIC_ENTITIES == 2

\* ServerCmd::SpawnStatic
DispatchSpawnStatic ==
    /\ pc = "dispatch" /\ cmd.tag = "SpawnStatic"
    /\ UNCHANGED <<cmds, outVars>>
    /\ IF Len(static_entities) >= MAX_STATIC_ENTITIES
       THEN Fail("TooManyStaticEntities") /\ UNCHANGED static_entities
       ELSE /\ static_entities' = Append(static_entities,
                                         from_baseline(cmd.model_id, cmd.origin))
            /\ Continue
    /\ UNCHANGED <<signon, timeVars, entVars, models, model_names, num_sounds,
                   max_players, view_entity, cshift_percent, items, item_get_time,
                   player_info, bonus_percent, channels>>

\* mod.rs 482-486: dmg_factor is min(armor + blood, 20) / 2 as f32; the cast
\* `dmg_factor as i32` truncates it before the multiplication by 3.
damage_percent(percent, armor, blood) ==
    LET m == IF armor + blood < 20 THEN armor + blood ELSE 20
        p == percent + 3 * (m \div 2)
    IN  IF p < 0 THEN 0 ELSE IF p > 150 THEN 150 ELSE p

\* ServerCmd::Damage: the overlay, then the view entity is indexed (line 496).
DispatchDamage ==
    /\ pc = "dispatch" /\ cmd.tag = "Damage"
    /\ UNCHANGED <<cmds, outVars>>
    /\ cshift_percent' = damage_percent(cshift_percent, cmd.armor, cmd.blood)
    /\ IF view_entity >= VecLen(entities) THEN Panic ELSE Continue
    /\ UNCHANGED <<signon, timeVars, entVars, models, model_names, num_sounds,
                   max_players, view_entity, items, item_get_time, player_info,
                   bonus_percent, static_entities,
                   channels>>

\* Bit i of the bits of an ItemFlags value.
Bit(n, i) == (n \div 2 ^ i) % 2

\* The flags that differ between two values.
RECURSIVE flags_xor(_, _, _)
flags_xor(a, b, i) ==
    IF i >= MAX_ITEMS THEN 0
    ELSE (IF Bit(a, i) # Bit(b, i) THEN 2 ^ i ELSE 0) + flags_xor(a, b, i + 1)

\* `items - self.state.items` (mod.rs 438): the flags of a that b lacks, from
\* bit i upwards.
RECURSIVE flags_sub(_, _, _)
flags_sub(a, b, i) ==
    IF i >= MAX_ITEMS THEN 0
    ELSE (IF Bit(a, i) = 1 /\ Bit(b, i) = 0 THEN 2 ^ i ELSE 0)
         + flags_sub(a, b, i + 1)

\* ServerCmd::ClientData: the item pickup times and the item flags
\* (mod.rs 438-449).
DispatchClientData ==
    /\ pc = "dispatch" /\ cmd.tag = "ClientData"
    /\ UNCHANGED <<cmds, outVars>>
    /\ LET item_diff == flags_sub(cmd.items, items, 0)
       IN  item_get_time' = [i \in 0 .. MAX_ITEMS - 1 |->
                                IF item_diff # 0 /\ Bit(item_diff, i) # 0
                                THEN time ELSE item_get_time[i]]
    /\ items' = cmd.items
    /\ Continue
    /\ UNCHANGED <<signon, timeVars, entVars, models, model_names, num_sounds,
                   max_players, view_entity, cshift_percent, player_info,
                   bonus_percent, static_entities, channels>>

\* ClientState::check_player_id
check_player_id(id, players) ==
    IF id >= MAX_CLIENTS THEN "NoSuchClient"
    ELSE IF id > players THEN "NoSuchPlayer"
    ELSE "Ok"

\* A handler of a roster command: the id is checked, then the roster becomes
\* `roster` (mod.rs 771-772, 796-797, 821-822).
RosterCommand(roster) ==
    /\ UNCHANGED <<cmds, outVars>>
    /\ LET r == check_player_id(cmd.player_id, max_players)
       IN  IF r = "Ok"
           THEN player_info' = roster /\ Continue
           ELSE UNCHANGED player_info /\ Fail(r)
    /\ UNCHANGED <<signon, timeVars, entVars, models, model_names, num_sounds,
                   max_players, view_entity, cshift_percent, items, item_get_time,
                   bonus_percent, static_entities,
                   channels>>

\* Every UpdateName installs a fresh record.
update_name_always_joins(info, id, name) ==
    [info EXCEPT ![id] = Some([name |-> name, colors |-> <<0, 0>>, frags |-> 0])]

\* mod.rs 824-836: a rename of the record in the slot, or a join.
update_name(info, id, name) ==
    [info EXCEPT ![id] =
        IF @.some THEN Some([@.val EXCEPT !.name = name])
        ELSE Some([name |-> name, colors |-> <<0, 0>>, frags |-> 0])]

\* ServerCmd::UpdateName
DispatchUpdateName ==
    /\ pc = "dispatch" /\ cmd.tag = "UpdateName"
    /\ RosterCommand(update_name(player_info, cmd.player_id, cmd.new_name))

\* ServerCmd::UpdateColors
DispatchUpdateColors ==
    /\ pc = "dispatch" /\ cmd.tag = "UpdateColors"
    /\ RosterCommand([player_info EXCEPT ![cmd.player_id] =
                        IF @.some THEN Some([@.val EXCEPT !.colors = cmd.new_colors])
                        ELSE @])

\* ServerCmd::UpdateFrags
DispatchUpdateFrags ==
    /\ pc = "dispatch" /\ cmd.tag = "UpdateFrags"
    /\ RosterCommand([player_info EXCEPT ![cmd.player_id] =
                        IF @.some THEN Some([@.val EXCEPT !.frags = cmd.new_frags])
                        ELSE @])

\* ServerCmd::Version: a version other than the protocol's panics (line 862).
DispatchVersion ==
    /\ pc = "dispatch" /\ cmd.tag = "Version"
    /\ UNCHANGED <<cmds, outVars>>
    /\ IF cmd.version # PROTOCOL_VERSION THEN Panic ELSE Continue
    /\ UNCHANGED <<signon, storeVars>>

\* ServerCmd::Disconnect: parse_server_msg returns Ok(Disconnect), and frame
\* goes on with the value dropped (mod.rs 892).
DispatchDisconnect ==
    /\ pc = "dispatch" /\ cmd.tag = "Disconnect"
    /\ UNCHANGED <<cmds, outVars>>
    /\ pc' = "interp"
    /\ cmd' = NoCmd
    /\ status' = "Disconnect"
    /\ UNCHANGED <<regVars, conn, recv_mode, hostVars, kind, signon, result, demo_left, storeVars>>

\* ServerCmd::Sound.  A sound on an entity outside the table breaks out of the
\* loop of parse_server_msg; sounds[sound_id] out of bounds panics.
DispatchSound ==
    /\ pc = "dispatch" /\ cmd.tag = "Sound"
    /\ UNCHANGED <<cmds, outVars>>
    /\ IF cmd.entity_id >= VecLen(entities)
       THEN /\ pc' = "interp"
            /\ cmd' = NoCmd
            /\ status' = "Maintain"
            /\ UNCHANGED <<regVars, conn, recv_mode, hostVars, kind, result, demo_left, channels>>
       ELSE IF cmd.sound_id >= num_sounds
       THEN Panic /\ UNCHANGED channels
       ELSE /\ channels' = start_sound(channels, msg_times[0], cmd.entity_id,
                                       cmd.channel)
            /\ Continue
    /\ UNCHANGED <<signon, timeVars, entVars, tableVars>>

\* ServerCmd::TempEntity with a TempEntity::Beam (spawn_temp_entity).  A model
\* name missing from model_names panics in unwrap.
DispatchTempEntityBeam ==
    /\ pc = "dispatch" /\ cmd.tag = "TempEntityBeam"
    /\ UNCHANGED <<cmds, outVars>>
    /\ IF cmd.model_name \notin DOMAIN model_names
       THEN Panic /\ UNCHANGED beams
       ELSE /\ beams' = spawn_beam(beams, time, cmd.entity_id,
                                   model_names[cmd.model_name],
                                   RInt(cmd.start), RInt(cmd.end))
            /\ Continue
    /\ UNCHANGED <<signon, timeVars, entities, visible_entity_ids, temp_entities,
                   tableVars, channels>>

\* The sink of channel i drains: Channel::in_use() turns false.  Only
\* find_free_channel calls in_use(), so the drain is taken where it is seen,
\* right before a Sound command is dispatched.
ChannelFinished(i) ==
    /\ pc = "dispatch" /\ cmd.tag = "Sound"
    /\ channels[i].some /\ channels[i].val.in_use
    /\ channels' = [channels EXCEPT ![i] = Some([channels[i].val EXCEPT !.in_use = FALSE])]
    /\ UNCHANGED <<regVars, connVars, timeVars, entVars, tableVars>>

(***************************************************************************)
(* The rest of frame, after parse_server_msg has returned Ok.              *)
(***************************************************************************)
\* self.state.update_interp_ratio(cl_nolerp)
UpdateInterpRatio ==
    /\ pc = "interp"
    /\ LET r == update_interp_ratio(time, msg_times, cl_nolerp)
       IN  /\ time' = r.time
           /\ msg_times' = r.msg_times
           /\ lerp_factor' = r.lerp_factor
    /\ pc' = "ents"
    /\ UNCHANGED <<regVars, conn, recv_mode, status, hostVars, kind, signon, cmd, result, demo_left>>
    /\ UNCHANGED <<start_time, entVars, tableVars, channels>>

\* self.state.update_entities()
UpdateEntities ==
    /\ pc = "ents"
    /\ LET r == update_entities(entities, msg_times, lerp_factor, VecLen(models))
       IN  /\ entities' = r.entities
           /\ visible_entity_ids' = r.visible_entity_ids
           /\ pc' = IF r.outcome = "panic" THEN "panic" ELSE "temps"
    /\ UNCHANGED <<regVars, conn, recv_mode, status, hostVars, kind, signon, cmd, result, demo_left>>
    /\ UNCHANGED <<timeVars, temp_entities, beams, tableVars, channels>>

\* self.state.update_temp_entities()
UpdateTempEntities ==
    /\ pc = "temps"
    /\ LET r == update_temp_entities(beams, time, view_entity, entities)
       IN  /\ beams' = r.beams
           /\ temp_entities' = r.temp_entities
           /\ pc' = IF r.outcome = "panic" THEN "panic" ELSE "post"
    /\ UNCHANGED <<regVars, conn, recv_mode, status, hostVars, kind, signon, cmd, result, demo_left>>
    /\ UNCHANGED <<timeVars, entities, visible_entity_ids, tableVars, channels>>

\* A `&ClientEntity` the iterator yields: the Vec it points into and the index.
Ref(vec, index) == [vec |-> vec, index |-> index]
RefsInto(vec, n) == [k \in 1 .. n |-> Ref(vec, k - 1)]

\* The static entities come before the temp entities.
iter_static_first(ents, ids, temps, statics) ==
    [i \in 1 .. Len(ids) |-> Ref("entities", ids[i])]
    \o RefsInto("static_entities", Len(statics))
    \o RefsInto("temp_entities", Len(temps))

\* ClientState::iter_visible_entities: the entities the renderer is handed.
iter_visible_entities(ents, ids, temps, statics) ==
    [i \in 1 .. Len(ids) |-> Ref("entities", ids[i])]
    \o RefsInto("temp_entities", Len(temps))
    \o RefsInto("static_entities", Len(statics))

\* `&self.entities[*i]` panics for an id outside the table.
iter_visible_entities_panics(ents, ids) ==
    \E i \in 1 .. Len(ids) : ids[i] >= VecLen(ents)

\* The steps of frame that need the player entity (mod.rs 921-931) index
\* entities[view entity] and models[1], which must be a brush model.
ListenerPanics ==
    \/ view_entity >= VecLen(entities)
    \/ VecLen(models) < 2
    \/ models[1] \notin BspNames

\* The overlays are left as they are.
decayed_never(percent, ft, rate) == percent

\* The decay of an overlay in update_color_shifts (state.rs 914-923): `rate`
\* per second, truncated, at least 1 and never below 0; ft is in milliseconds.
decayed(percent, ft, rate) ==
    LET by == (ft * rate) \div 1000
        p == percent - (IF by < 1 THEN 1 ELSE by)
    IN  IF p < 0 THEN 0 ELSE p

\* The steps of frame taken only in stage Done (mod.rs 921-931):
\* update_listener, update_sound_spatialization, update_color_shifts.
DoneUpdates ==
    IF signon = "Done"
    THEN IF ListenerPanics
         THEN /\ pc' = "panic"
              /\ UNCHANGED <<result, cshift_percent, bonus_percent>>
         ELSE /\ pc' = "idle" /\ result' = "Ok"
              /\ cshift_percent' = decayed(cshift_percent, frame_time, 150)
              /\ bonus_percent' = decayed(bonus_percent, frame_time, 100)
    ELSE /\ pc' = "idle" /\ result' = "Ok"
         /\ UNCHANGED <<cshift_percent, bonus_percent>>

\* impl Drop for Client, between two frames: the Connection and its store go
\* with the Client (mod.rs 1514-1519).
Drop ==
    /\ pc = "idle" /\ conn
    /\ cmds' = cmds \ {"reconnect"}
    /\ compose' = <<>> /\ UNCHANGED sent
    /\ conn' = FALSE
    /\ pc' = "dropped"
    /\ SetStore(NoStore)
    /\ UNCHANGED <<connectVars, recv_mode, status, hostVars, kind, signon, cmd,
                   result, demo_left>>

\* The closure of the `reconnect` command restarts the sign-on at Begin.
cmd_reconnect_to_begin(stage) == "Begin"

\* The closure of the `reconnect` command: the stage it stores (mod.rs 949).
cmd_reconnect(stage) == "Not"

\* The console runs the `reconnect` command of a live connection.  The frame
\* holds the command registry borrowed, so the closure runs between frames.
Reconnect ==
    /\ pc = "idle" /\ kind = "Server" /\ conn
    /\ signon' = cmd_reconnect(signon)
    /\ UNCHANGED <<regVars, conn, recv_mode, status, hostVars, kind, pc, cmd, result,
                   demo_left, storeVars>>

\* Client::signon_stage, Client::entities and Client::models (mod.rs 1153-1187).
Client_signon_stage == IF conn THEN signon ELSE "NotConnected"
Client_entities == IF conn /\ signon = "Done" THEN Some(entities) ELSE None
Client_models == IF conn /\ signon = "Done" THEN Some(models) ELSE None

\* The buffer is cleared at the end of every frame, sent or not.
FinishFrameClearsUnsent(send) ==
    /\ pc = "post"
    /\ IF kind = "Server" /\ send # "Busy" /\ compose # <<>>
       THEN IF send = "Ok"
            THEN /\ sent' = sent \o compose
                 /\ compose' = <<>>
                 /\ DoneUpdates
            ELSE /\ pc' = "idle" /\ result' = "Net"
                 /\ UNCHANGED <<outVars, cshift_percent, bonus_percent>>
       ELSE /\ compose' = <<>> /\ UNCHANGED sent
            /\ DoneUpdates
    /\ UNCHANGED <<cmds, connectVars, conn, recv_mode, status, hostVars, kind, signon, cmd, demo_left>>
    /\ UNCHANGED <<timeVars, entVars, models, model_names, num_sounds, max_players,
                   view_entity, items, item_get_time, player_info, static_entities,
                   channels>>

\* The end of frame (mod.rs 901-933).
FinishFrame(send) ==
    /\ pc = "post"
    /\ IF kind = "Server" /\ send # "Busy" /\ compose # <<>>
       THEN IF send = "Ok"
            THEN /\ sent' = sent \o compose
                 /\ compose' = <<>>
                 /\ DoneUpdates
            ELSE /\ pc' = "idle" /\ result' = "Net"
                 /\ UNCHANGED <<outVars, cshift_percent, bonus_percent>>
       ELSE /\ UNCHANGED outVars
            /\ DoneUpdates
    /\ UNCHANGED <<cmds, connectVars, conn, recv_mode, status, hostVars, kind, signon, cmd, demo_left>>
    /\ UNCHANGED <<timeVars, entVars, models, model_names, num_sounds, max_players,
                   view_entity, items, item_get_time, player_info, static_entities,
                   channels>>

\* qsock.can_send() is false ("Busy") while the last message is unacknowledged;
\* qsock.begin_send_msg returns Ok or a NetError.
SendOutcomes == {"Busy", "Ok", "Err"}

(***************************************************************************)
(* Commands a server (or a recorded demo) may send.                        *)
(***************************************************************************)
TimeCmds(times) == {[tag |-> "Time", time |-> t] : t \in times}
SignOnStageCmds == {[tag |-> "SignOnStage", stage |-> st] : st \in SignOnStages}
FastUpdateCmds(ids, model_ids, origins, angles, relinks) ==
    {[tag |-> "FastUpdate", ent_id |-> e, model_id |-> m, origin |-> o,
      angle |-> a, relink |-> r] :
        e \in ids, m \in model_ids, o \in origins, a \in angles, r \in relinks}
ServerInfoCmds(versions, precaches, loads) ==
    {[tag |-> "ServerInfo", protocol_version |-> v, max_clients |-> 1,
      model_precache |-> p, sound_precache |-> <<"misc/talk.wav">>, load_ok |-> l] :
        v \in versions, p \in precaches, l \in loads}
SpawnBaselineCmds(ids, model_ids, origins) ==
    {[tag |-> "SpawnBaseline", ent_id |-> e, model_id |-> m, origin |-> o] :
        e \in ids, m \in model_ids, o \in origins}
SpawnStaticCmds(model_ids, origins) ==
    {[tag |-> "SpawnStatic", model_id |-> m, origin |-> o] :
        m \in model_ids, o \in origins}
DisconnectCmds == {[tag |-> "Disconnect"]}
SetViewCmds(ids) == {[tag |-> "SetView", ent_id |-> e] : e \in ids}
SoundCmds(ids, chans, sound_ids) ==
    {[tag |-> "Sound", entity_id |-> e, channel |-> c, sound_id |-> s] :
        e \in ids, c \in chans, s \in sound_ids}
DamageCmds(armors, bloods) ==
    {[tag |-> "Damage", armor |-> a, blood |-> b] : a \in armors, b \in bloods}
ClientDataCmds(flags) == {[tag |-> "ClientData", items |-> f] : f \in flags}
UpdateNameCmds(ids, names) ==
    {[tag |-> "UpdateName", player_id |-> i, new_name |-> n] : i \in ids, n \in names}
UpdateColorsCmds(ids, colors) ==
    {[tag |-> "UpdateColors", player_id |-> i, new_colors |-> c] : i \in ids, c \in colors}
UpdateFragsCmds(ids, frags) ==
    {[tag |-> "UpdateFrags", player_id |-> i, new_frags |-> f] : i \in ids, f \in frags}
VersionCmds(versions) == {[tag |-> "Version", version |-> v] : v \in versions}
BeamCmds(ids, names, starts, ends) ==
    {[tag |-> "TempEntityBeam", entity_id |-> e, model_name |-> n, start |-> a, end |-> b] :
        e \in ids, n \in names, a \in starts, b \in ends}

\* Vfs::new() (vfs.rs 46-50) and a Progs that holds no data (progs.rs 192-195).
VfsIdle == components = <<>> /\ opened = None
\* No call has been made on the Progs.
NoOp == [name |-> "none", vals |-> <<>>, addrs |-> <<>>, ok |-> TRUE, ret |-> <<>>, n |-> 0]
ProgsIdle == data = <<>> /\ progs_op = NoOp

\* Client::connect or Client::play_demo has returned: stage Not, a new store.
InitConnection(kinds, nolerps) ==
    /\ conn = TRUE
    /\ attempt = 0 /\ reply = None /\ response = None
    /\ compose = <<>> /\ sent = <<>>
    /\ recv_mode = "None"
    /\ status = "Maintain"
    /\ cl_nolerp \in nolerps
    /\ VfsIdle /\ ProgsIdle /\ frame_time = 0
    /\ kind \in kinds
    /\ cmds = IF kind = "Server" THEN {"reconnect"} ELSE {}
    /\ signon = "Not"
    /\ pc = "idle"
    /\ cmd = NoCmd
    /\ result = "Ok"
    /\ demo_left = IF kind = "Demo" THEN MaxDemoMsgs ELSE 0
    /\ StoreIs(ClientState_new)

(***************************************************************************)
(* Spec: the sign-on state machine of a live connection and of a demo.     *)
(***************************************************************************)
SignOnAlphabet ==
    TimeCmds(Times(MaxTicks)) \cup SignOnStageCmds \cup DisconnectCmds
    \cup FastUpdateCmds({0}, {1}, {0}, {0}, {FALSE})
    \cup ServerInfoCmds({PROTOCOL_VERSION, PROTOCOL_VERSION + 1},
                        {<<"maps/start.bsp">>}, {TRUE})
    \cup SpawnBaselineCmds({0}, {1}, {0})

Init == InitConnection({"Server", "Demo"}, {0})

Next ==
    \/ \E e \in BOOLEAN : FrameServer(Tick, e, MaxTicks * Tick)
    \/ FrameDemo(Tick, MaxTicks * Tick)
    \/ DecodeWithin(SignOnAlphabet, SignOnOut)
    \/ EndOfMessage
    \/ DispatchTime
    \/ DispatchSignOnStage
    \/ DispatchFastUpdate
    \/ DispatchServerInfo
    \/ DispatchSpawnBaseline
    \/ DispatchDisconnect
    \/ UpdateInterpRatio
    \/ UpdateEntities
    \/ UpdateTempEntities
    \/ \E send \in SendOutcomes : FinishFrame(send)

Spec == Init /\ [][Next]_vars

(***************************************************************************)
(* SpecEntities: the entity table of a live connection under Time,         *)
(* SpawnBaseline and FastUpdate commands, after a ServerInfo has loaded    *)
(* the world model and one entity model (model id 2).                      *)
(***************************************************************************)
EntityPrecache == <<"maps/start.bsp", "progs/player.mdl">>

EntityAlphabet ==
    TimeCmds(Times(MaxTicks))
    \cup ServerInfoCmds({PROTOCOL_VERSION}, {EntityPrecache}, {TRUE})
    \cup FastUpdateCmds(1 .. MaxEnt, {2}, {0}, {0}, {FALSE})
    \cup SpawnBaselineCmds(1 .. MaxEnt, {2}, {0})

InitEntities == InitConnection({"Server"}, {0})

NextEntities ==
    \/ \E e \in BOOLEAN : FrameServer(Tick, e, MaxTicks * Tick)
    \/ Decode(EntityAlphabet)
    \/ EndOfMessage
    \/ DispatchTime
    \/ DispatchServerInfo
    \/ DispatchFastUpdate
    \/ DispatchSpawnBaseline
    \/ UpdateInterpRatio
    \/ UpdateEntities
    \/ UpdateTempEntities
    \/ \E send \in SendOutcomes : FinishFrame(send)

SpecEntities == InitEntities /\ [][NextEntities]_vars

(***************************************************************************)
(* SpecInterp: update_interp_ratio applied to sampled inputs.  The render  *)
(* time and both message times range over the tick grid and over one       *)
(* millisecond on either side of it, so that a ratio just outside [0, 1]   *)
(* (within the 1% tolerance) is among the cases, as are a negative server  *)
(* delta and a delta above the 100 ms cap.                                  *)
(***************************************************************************)
InterpTimes ==
    LET grid == Times(MaxInterpTicks)
    IN  grid \cup {t + 1 : t \in grid} \cup {t - 1 : t \in grid \ {0}}

InitInterp ==
    /\ conn = TRUE
    /\ attempt = 0 /\ reply = None /\ response = None
    /\ compose = <<>> /\ sent = <<>>
    /\ recv_mode = "None"
    /\ status = "Maintain"
    /\ cl_nolerp \in {0, 1}
    /\ VfsIdle /\ ProgsIdle /\ frame_time = 0
    /\ kind = "Server"
    /\ cmds = IF kind = "Server" THEN {"reconnect"} ELSE {}
    /\ signon = "Not"
    /\ pc = "interp"
    /\ cmd = NoCmd
    /\ result = "Ok"
    /\ demo_left = 0
    /\ \E t \in InterpTimes, mt \in [0 .. 1 -> InterpTimes] :
          StoreIs([ClientState_new EXCEPT !.time = t, !.msg_times = mt])

NextInterp == UpdateInterpRatio

SpecInterp == InitInterp /\ [][NextInterp]_vars

(***************************************************************************)
(* SpecMixer: the channel pool of a live connection.  One entity (id 1)    *)
(* is spawned and plays sound 1 on entity channels 0 and 1 at the message  *)
(* times the Time commands set; any playing sink may drain at any moment.  *)
(***************************************************************************)
MixerAlphabet ==
    TimeCmds(Times(MaxMixerTicks))
    \cup ServerInfoCmds({PROTOCOL_VERSION}, {EntityPrecache}, {TRUE})
    \cup SpawnBaselineCmds({1}, {2}, {0})
    \cup SoundCmds({1}, {0, 1}, {1})

InitMixer == InitConnection({"Server"}, {0})

NextMixer ==
    \/ \E e \in BOOLEAN : FrameServer(Tick, e, MaxMixerTicks * Tick)
    \/ Decode(MixerAlphabet)
    \/ EndOfMessage
    \/ DispatchTime
    \/ DispatchServerInfo
    \/ DispatchSpawnBaseline
    \/ DispatchSound
    \/ \E i \in 0 .. MAX_CHANNELS - 1 : ChannelFinished(i)
    \/ UpdateInterpRatio
    \/ UpdateEntities
    \/ UpdateTempEntities
    \/ \E send \in SendOutcomes : FinishFrame(send)

SpecMixer == InitMixer /\ [][NextMixer]_vars

(***************************************************************************)
(* SpecBeam: the beam slots of a live connection.  Entities 1 and 2 fire   *)
(* lightning beams of two segments; the Time commands let the render time  *)
(* run past a beam's expiry.                                               *)
(***************************************************************************)
BeamPrecache == <<"maps/start.bsp", "progs/bolt.mdl">>

BeamAlphabet ==
    TimeCmds({0, MaxBeamTicks * Tick})
    \cup ServerInfoCmds({PROTOCOL_VERSION}, {BeamPrecache}, {TRUE})
    \cup BeamCmds({1, 2, 3}, {"progs/bolt.mdl"}, {0}, {2 * BeamSegmentLen})

InitBeam == InitConnection({"Server"}, {0})

NextBeam ==
    \/ \E e \in BOOLEAN : FrameServer(Tick, e, MaxBeamTicks * Tick)
    \/ Decode(BeamAlphabet)
    \/ EndOfMessage
    \/ DispatchTime
    \/ DispatchServerInfo
    \/ DispatchTempEntityBeam
    \/ UpdateInterpRatio
    \/ UpdateEntities
    \/ UpdateTempEntities
    \/ \E send \in SendOutcomes : FinishFrame(send)

SpecBeam == InitBeam /\ [][NextBeam]_vars

(***************************************************************************)
(* SpecLink: update_entities applied to one entity (id 1) that was         *)
(* updated in the newest message.  Its two snapshot origins and angles,    *)
(* its force-link flag and the render time between the two message times   *)
(* (hence lerp_factor, a multiple of 1/4) are sampled.                     *)
(***************************************************************************)
LinkOrigins == {-101, 0, 100, 101}
LinkAngles == {0, 5, 180, 185, 350}
LinkSpan == 4 * LinkStep

LinkEntity(origins, angles, force) ==
    [model_id |-> 2, msg_time |-> LinkSpan, force_link |-> force,
     msg_origins |-> origins, origin |-> RInt(origins[1]),
     msg_angles |-> angles, angles |-> RInt(angles[1])]

InitLink ==
    /\ conn = TRUE
    /\ attempt = 0 /\ reply = None /\ response = None
    /\ compose = <<>> /\ sent = <<>>
    /\ recv_mode = "None"
    /\ status = "Maintain"
    /\ cl_nolerp = 0
    /\ VfsIdle /\ ProgsIdle /\ frame_time = 0
    /\ kind = "Server"
    /\ cmds = IF kind = "Server" THEN {"reconnect"} ELSE {}
    /\ signon = "Not"
    /\ pc = "ents"
    /\ cmd = NoCmd
    /\ result = "Ok"
    /\ demo_left = 0
    /\ \E k \in 0 .. 4, force \in BOOLEAN,
          origins \in [0 .. 1 -> LinkOrigins], angles \in [0 .. 1 -> LinkAngles] :
          StoreIs([from_server_info(1, EntityPrecache, <<>>) EXCEPT
                      !.time = k * LinkStep,
                      !.msg_times = [i \in {0, 1} |-> IF i = 0 THEN LinkSpan ELSE 0],
                      !.lerp_factor = Ratio(k, 4),
                      !.entities = [i \in {0, 1} |->
                                       IF i = 0 THEN uninitialized
                                       ELSE LinkEntity(origins, angles, force)]])

NextLink == UpdateEntities

SpecLink == InitLink /\ [][NextLink]_vars

(***************************************************************************)
(* SpecDispatch: the commands that name an entity by id (SpawnBaseline,    *)
(* SetView, Sound) and the ones that end a message early, on a live        *)
(* connection whose server allows one player.                              *)
(***************************************************************************)
DispatchAlphabet ==
    ServerInfoCmds({PROTOCOL_VERSION, PROTOCOL_VERSION + 1}, {EntityPrecache}, {TRUE})
    \cup SpawnBaselineCmds(0 .. MaxEnt, {2}, {0})
    \cup SetViewCmds(-1 .. MaxEnt + 1)
    \cup SoundCmds(1 .. MaxEnt, {1}, {1})
    \cup DisconnectCmds

InitDispatch == InitConnection({"Server"}, {0})

NextDispatch ==
    \/ \E e \in BOOLEAN : FrameServer(Tick, e, MaxTicks * Tick)
    \/ Decode(DispatchAlphabet)
    \/ EndOfMessage
    \/ DispatchServerInfo
    \/ DispatchSpawnBaseline
    \/ DispatchSetView
    \/ DispatchSound
    \/ DispatchDisconnect
    \/ UpdateInterpRatio
    \/ UpdateEntities
    \/ UpdateTempEntities
    \/ \E send \in SendOutcomes : FinishFrame(send)

SpecDispatch == InitDispatch /\ [][NextDispatch]_vars

(***************************************************************************)
(* SpecDemo: demo playback rendered at twice the rate of the recorded      *)
(* server, so that a frame can find the render time behind the newest      *)
(* message time.                                                           *)
(***************************************************************************)
DemoAlphabet == TimeCmds(Times(MaxTicks))

InitDemo == InitConnection({"Demo"}, {0})

NextDemo ==
    \/ FrameDemo(DemoFrame, MaxTicks * Tick)
    \/ Decode(DemoAlphabet)
    \/ EndOfMessage
    \/ DispatchTime
    \/ UpdateInterpRatio
    \/ UpdateEntities
    \/ UpdateTempEntities
    \/ \E send \in SendOutcomes : FinishFrame(send)

SpecDemo == InitDemo /\ [][NextDemo]_vars

(***************************************************************************)
(* SpecReconnect: the sign-on of a live connection with the `reconnect`    *)
(* command run between frames.  The server never sends stage Not itself.   *)
(***************************************************************************)
ReconnectAlphabet ==
    {c \in SignOnStageCmds : c.stage # "Not"}
    \cup FastUpdateCmds({0}, {1}, {0}, {0}, {FALSE})
    \cup ServerInfoCmds({PROTOCOL_VERSION}, {<<"maps/start.bsp">>}, {TRUE})
    \cup SpawnBaselineCmds({0}, {1}, {0})

InitReconnect == InitConnection({"Server"}, {0})

NextReconnect ==
    \/ \E e \in BOOLEAN : FrameServer(Tick, e, MaxTicks * Tick)
    \/ Reconnect
    \/ Decode(ReconnectAlphabet)
    \/ EndOfMessage
    \/ DispatchSignOnStage
    \/ DispatchFastUpdate
    \/ DispatchServerInfo
    \/ DispatchSpawnBaseline
    \/ UpdateInterpRatio
    \/ UpdateEntities
    \/ UpdateTempEntities
    \/ \E send \in SendOutcomes : FinishFrame(send)

SpecReconnect == InitReconnect /\ [][NextReconnect]_vars

(***************************************************************************)
(* Client::connect (mod.rs 983-1085), step by step.                        *)
(***************************************************************************)
ServerAddr == "server"
Ports == {-1, 0, U16_MAX - 1, U16_MAX}
Responses ==
    {[tag |-> "Accept", port |-> p] : p \in Ports}
    \cup {[tag |-> "Reject"], [tag |-> "ServerInfo"]}
\* What ConnectSocket::recv_response may return within its 2.5 seconds.
Replies ==
    {[tag |-> "InvalidData"], [tag |-> "Io"], [tag |-> "Nothing"]}
    \cup {[tag |-> "Response", resp |-> r, remote |-> a] :
            r \in Responses, a \in {ServerAddr, "other"}}

\* connect returns Err: no Client is built, so nothing is ever dropped.
ConnectFail(err) ==
    /\ pc' = "failed"
    /\ result' = err
    /\ UNCHANGED <<conn, recv_mode, status, hostVars, kind, signon, cmd, demo_left,
                   storeVars>>

\* The loop asks for one request more than its budget.
loop_continues_once_more(n) == n <= MAX_CONNECT_ATTEMPTS

\* for attempt in 0..MAX_CONNECT_ATTEMPTS, after n iterations (mod.rs 1007).
loop_continues(n) == n < MAX_CONNECT_ATTEMPTS

\* The next iteration of the loop, or the code after it.
NextAttempt == pc' = IF loop_continues(attempt) THEN "send" ELSE "finish"

\* mod.rs 994-997: the sign-on cell and the `reconnect` command.
ConnectRegister ==
    /\ pc = "connect"
    /\ cmds' = cmds \cup {"reconnect"}
    /\ signon' = "Not"
    /\ pc' = "bind"
    /\ UNCHANGED <<outVars, connectVars, conn, recv_mode, status, hostVars, kind, cmd, result,
                   demo_left, storeVars>>

\* mod.rs 999: ConnectSocket::bind
ConnectBind(ok) ==
    /\ pc = "bind"
    /\ IF ok
       THEN /\ pc' = "resolve"
            /\ UNCHANGED <<conn, recv_mode, status, hostVars, kind, signon, cmd,
                           result, demo_left, storeVars>>
       ELSE ConnectFail("Io")
    /\ UNCHANGED regVars

\* mod.rs 1000-1005: the first address the name resolves to.
ConnectResolve(ok) ==
    /\ pc = "resolve"
    /\ IF ok
       THEN /\ pc' = "send"
            /\ UNCHANGED <<conn, recv_mode, status, hostVars, kind, signon, cmd,
                           result, demo_left, storeVars>>
       ELSE ConnectFail("InvalidServerAddress")
    /\ UNCHANGED regVars

\* mod.rs 1013-1016: send_request
ConnectSend(ok) ==
    /\ pc = "send"
    /\ attempt' = attempt + 1
    /\ IF ok
       THEN /\ pc' = "recv"
            /\ UNCHANGED <<conn, recv_mode, status, hostVars, kind, signon, cmd,
                           result, demo_left, storeVars>>
       ELSE ConnectFail("Io")
    /\ UNCHANGED <<cmds, outVars, reply, response>>

\* mod.rs 1019: recv_response
ConnectRecv(r) ==
    /\ pc = "recv"
    /\ reply' = r
    /\ pc' = "match"
    /\ UNCHANGED <<cmds, outVars, attempt, response, conn, recv_mode, status, hostVars, kind,
                   signon, cmd, result, demo_left, storeVars>>

\* mod.rs 1019-1040: the match on what recv_response returned.
ConnectMatch ==
    /\ pc = "match"
    /\ IF reply.tag = "Io"
       THEN ConnectFail("Io") /\ UNCHANGED response
       ELSE /\ IF reply.tag = "Response" /\ reply.remote = ServerAddr
               THEN response' = Some(reply.resp) /\ pc' = "finish"
               ELSE UNCHANGED response /\ NextAttempt
            /\ UNCHANGED <<conn, recv_mode, status, hostVars, kind, signon, cmd,
                           result, demo_left, storeVars>>
    /\ UNCHANGED <<cmds, outVars, attempt, reply>>

\* mod.rs 1043-1084: the port of the response, then the Connection.
ConnectFinish ==
    /\ pc = "finish"
    /\ IF ~response.some
       THEN ConnectFail("NoResponse") /\ UNCHANGED <<connectVars, outVars>>
       ELSE IF response.val.tag = "Reject"
       THEN ConnectFail("ConnectionRejected") /\ UNCHANGED <<connectVars, outVars>>
       ELSE IF response.val.tag # "Accept"
       THEN ConnectFail("InvalidConnectResponse") /\ UNCHANGED <<connectVars, outVars>>
       ELSE IF response.val.port < 0 \/ response.val.port >= U16_MAX
       THEN ConnectFail("InvalidConnectPort") /\ UNCHANGED <<connectVars, outVars>>
       ELSE /\ conn' = TRUE
            /\ SetStore(ClientState_new)
            /\ pc' = "idle"
            /\ result' = "Ok"
            /\ attempt' = 0 /\ reply' = None /\ response' = None
            /\ compose' = <<>> /\ sent' = <<>>
            /\ UNCHANGED <<recv_mode, status, hostVars, kind, signon, cmd, demo_left>>
    /\ UNCHANGED cmds

(***************************************************************************)
(* SpecConnect: one call of Client::connect, and the drop of the Client    *)
(* it returned.                                                            *)
(***************************************************************************)
\* No connection has been made yet.
NotConnected ==
    /\ cmds = {}
    /\ attempt = 0 /\ reply = None /\ response = None
    /\ compose = <<>> /\ sent = <<>>
    /\ conn = FALSE
    /\ recv_mode = "None"
    /\ status = "Maintain"
    /\ cl_nolerp = 0
    /\ kind = "Server"
    /\ signon = "Not"
    /\ pc = "connect"
    /\ cmd = NoCmd
    /\ result = "Pending"
    /\ demo_left = 0
    /\ StoreIs(NoStore)

InitConnect == NotConnected /\ VfsIdle /\ ProgsIdle /\ frame_time = 0

NextConnect ==
    \/ ConnectRegister
    \/ \E ok \in BOOLEAN : ConnectBind(ok)
    \/ \E ok \in BOOLEAN : ConnectResolve(ok)
    \/ \E ok \in BOOLEAN : ConnectSend(ok)
    \/ \E r \in Replies : ConnectRecv(r)
    \/ ConnectMatch
    \/ ConnectFinish
    \/ Drop

SpecConnect == InitConnect /\ [][NextConnect]_vars

(***************************************************************************)
(* SpecHud: damage and item pickups of a live connection whose player      *)
(* entity has spawned.                                                     *)
(***************************************************************************)
HudAlphabet ==
    DamageCmds({0, 3}, {2, 20})
    \cup ClientDataCmds(0 .. 2 ^ MAX_ITEMS - 1)
    \cup TimeCmds({MaxTicks * Tick})
    \cup SpawnBaselineCmds({0}, {0}, {0})

InitHud == InitConnection({"Server"}, {0})

NextHud ==
    \/ FrameServer(Tick, FALSE, MaxTicks * Tick)
    \/ Decode(HudAlphabet)
    \/ EndOfMessage
    \/ DispatchDamage
    \/ DispatchClientData
    \/ DispatchTime
    \/ DispatchSpawnBaseline
    \/ UpdateInterpRatio
    \/ UpdateEntities
    \/ UpdateTempEntities
    \/ \E send \in SendOutcomes : FinishFrame(send)

SpecHud == InitHud /\ [][NextHud]_vars

(***************************************************************************)
(* SpecScan: one Sound command dispatched over a sampled channel pool.     *)
(* Slots fill in index order and are never emptied again, so the empty     *)
(* slots of a pool are its last ones; the sounds of the pool started at    *)
(* time 0 and the command arrives with the message time Tick.              *)
(***************************************************************************)
ScanEntities == {1, 2}
ScanChannels == {-1, 0, 1}
ScanSlots ==
    {None} \cup {Some([ClientChannel(0, e, c) EXCEPT !.in_use = u]) :
                    e \in ScanEntities, c \in ScanChannels, u \in BOOLEAN}
ScanPools ==
    {p \in [0 .. MAX_CHANNELS - 1 -> ScanSlots] :
        \A i, j \in 0 .. MAX_CHANNELS - 1 : (i < j /\ ~p[i].some) => ~p[j].some}

InitScan ==
    /\ conn = TRUE
    /\ attempt = 0 /\ reply = None /\ response = None
    /\ compose = <<>> /\ sent = <<>>
    /\ recv_mode = "Timeout"
    /\ status = "Maintain"
    /\ cl_nolerp = 0
    /\ VfsIdle /\ ProgsIdle /\ frame_time = 0
    /\ kind = "Server"
    /\ cmds = {"reconnect", "bf"}
    /\ signon = "Not"
    /\ pc = "dispatch"
    /\ cmd \in SoundCmds(ScanEntities, ScanChannels, {1})
    /\ result = "Ok"
    /\ demo_left = 0
    /\ \E p \in ScanPools :
          StoreIs([from_server_info(1, EntityPrecache, <<"misc/talk.wav">>) EXCEPT
                      !.time = Tick,
                      !.msg_times = [i \in {0, 1} |-> IF i = 0 THEN Tick ELSE 0],
                      !.entities = [i \in 0 .. 2 |-> uninitialized],
                      !.channels = p])

NextScan == DispatchSound

SpecScan == InitScan /\ [][NextScan]_vars

(***************************************************************************)
(* SpecPlayers: the player roster and the Version command on a live        *)
(* connection whose server allows one player.                              *)
(***************************************************************************)
PlayersAlphabet ==
    ServerInfoCmds({PROTOCOL_VERSION}, {EntityPrecache}, {TRUE})
    \cup UpdateNameCmds(0 .. MAX_CLIENTS, {"a", "b"})
    \cup UpdateColorsCmds(0 .. MAX_CLIENTS, {<<1, 2>>})
    \cup UpdateFragsCmds(0 .. MAX_CLIENTS, {5})
    \cup VersionCmds({PROTOCOL_VERSION, PROTOCOL_VERSION + 1})

InitPlayers == InitConnection({"Server"}, {0})

NextPlayers ==
    \/ FrameServer(Tick, FALSE, MaxTicks * Tick)
    \/ Decode(PlayersAlphabet)
    \/ EndOfMessage
    \/ DispatchServerInfo
    \/ DispatchUpdateName
    \/ DispatchUpdateColors
    \/ DispatchUpdateFrags
    \/ DispatchVersion
    \/ UpdateInterpRatio
    \/ UpdateEntities
    \/ UpdateTempEntities
    \/ \E send \in SendOutcomes : FinishFrame(send)

SpecPlayers == InitPlayers /\ [][NextPlayers]_vars

(***************************************************************************)
(* SpecReset: ServerInfo commands between commands that leave their mark   *)
(* on the store: entities, sounds, the roster, items, the damage overlay   *)
(* and the message times.                                                  *)
(***************************************************************************)
ResetAlphabet ==
    ServerInfoCmds({PROTOCOL_VERSION}, {EntityPrecache}, {TRUE})
    \cup TimeCmds({MaxTicks * Tick})
    \cup SpawnBaselineCmds({0}, {2}, {0})
    \cup SoundCmds({0}, {1}, {1})
    \cup UpdateNameCmds({0}, {"a"})
    \cup ClientDataCmds({1})
    \cup DamageCmds({0}, {20})

InitReset == InitConnection({"Server"}, {0})

NextReset ==
    \/ FrameServer(Tick, FALSE, MaxTicks * Tick)
    \/ Decode(ResetAlphabet)
    \/ EndOfMessage
    \/ DispatchServerInfo
    \/ DispatchTime
    \/ DispatchSpawnBaseline
    \/ DispatchSound
    \/ DispatchUpdateName
    \/ DispatchClientData
    \/ DispatchDamage
    \/ UpdateInterpRatio
    \/ UpdateEntities
    \/ UpdateTempEntities
    \/ \E send \in SendOutcomes : FinishFrame(send)

SpecReset == InitReset /\ [][NextReset]_vars

(***************************************************************************)
(* SpecVisible: what the renderer is handed after a frame: networked       *)
(* entities 1 and 2, the segments of a beam and static entities.           *)
(***************************************************************************)
VisibleAlphabet ==
    TimeCmds({Tick, 2 * Tick})
    \cup ServerInfoCmds({PROTOCOL_VERSION}, {EntityPrecache}, {TRUE})
    \cup FastUpdateCmds(1 .. MaxEnt, {2}, {0}, {0}, {FALSE})
    \cup SpawnBaselineCmds({0}, {1}, {0})
    \cup SpawnStaticCmds({2}, {0})
    \cup BeamCmds({1}, {"progs/player.mdl"}, {0}, {2 * BeamSegmentLen})

InitVisible == InitConnection({"Server"}, {0})

NextVisible ==
    \/ FrameServer(Tick, FALSE, MaxTicks * Tick)
    \/ Decode(VisibleAlphabet)
    \/ EndOfMessage
    \/ DispatchTime
    \/ DispatchServerInfo
    \/ DispatchFastUpdate
    \/ DispatchSpawnBaseline
    \/ DispatchSpawnStatic
    \/ DispatchTempEntityBeam
    \/ UpdateInterpRatio
    \/ UpdateEntities
    \/ UpdateTempEntities
    \/ \E send \in SendOutcomes : FinishFrame(send)

SpecVisible == InitVisible /\ [][NextVisible]_vars

(***************************************************************************)
(* The virtual file system (common/vfs.rs).  A path is the sequence of its *)
(* components; an absolute path starts with "/".                           *)
(***************************************************************************)
IsAbsolute(path) == path # <<>> /\ path[1] = "/"

\* PathBuf::push (vfs.rs 86-87): a relative path is appended, an absolute
\* path replaces the buffer.
PathBuf_push(base, path) == IF IsAbsolute(path) THEN path ELSE base \o path

\* The files of the host: two game directories and a file outside them.
HostFiles ==
    {<<"/", "id1", "a">>, <<"/", "mod", "a">>, <<"/", "mod", "b">>,
     <<"/", "etc", "passwd">>}
DirectoryPaths == {<<"/", "id1">>, <<"/", "mod">>}

\* std::fs::File::open
File_open(path) == path \in HostFiles

\* The archives of the host and the names each holds; Pak::new fails on any
\* other path.
PakPaths == {<<"/", "pak0.pak">>, <<"/", "pak1.pak">>, <<"/", "id1", "a">>}
Pak_new(path) ==
    IF path = <<"/", "pak0.pak">>
    THEN [ok |-> TRUE, files |-> {<<"a">>, <<"c">>}]
    ELSE IF path = <<"/", "pak1.pak">>
    THEN [ok |-> TRUE, files |-> {<<"c">>}]
    ELSE [ok |-> FALSE, files |-> {}]

\* Pak::open succeeds for the names the archive holds.
Pak_open(files, name) == name \in files

\* The sources a Vfs of the model holds at most.
MaxSources == 3

\* Vfs::add_pakfile
AddPakfile(path) ==
    /\ pc = "connect" /\ Len(components) < MaxSources
    /\ LET r == Pak_new(path)
       IN  components' = IF r.ok
                         THEN Append(components,
                                     [tag |-> "Pak", path |-> path, files |-> r.files])
                         ELSE components
    /\ UNCHANGED <<regVars, conn, recv_mode, status, cl_nolerp, frame_time, opened, data, progs_op,
                   kind, signon, pc, cmd, result, demo_left, storeVars>>

\* Vfs::add_directory
AddDirectory(path) ==
    /\ pc = "connect" /\ Len(components) < MaxSources
    /\ components' = Append(components, [tag |-> "Directory", path |-> path, files |-> {}])
    /\ UNCHANGED <<regVars, conn, recv_mode, status, cl_nolerp, frame_time, opened, data, progs_op,
                   kind, signon, pc, cmd, result, demo_left, storeVars>>

\* The loop of Vfs::open from component i down (vfs.rs 77-96).
RECURSIVE OpenFrom(_, _, _)
OpenFrom(comps, i, vp) ==
    IF i = 0 THEN [tag |-> "NoSuchFile", path |-> vp]
    ELSE LET c == comps[i] IN
         IF c.tag = "Pak"
         THEN IF Pak_open(c.files, vp)
              THEN [tag |-> "PakBacked", path |-> c.path \o vp]
              ELSE OpenFrom(comps, i - 1, vp)
         ELSE IF File_open(PathBuf_push(c.path, vp))
              THEN [tag |-> "FileBacked", path |-> PathBuf_push(c.path, vp)]
              ELSE OpenFrom(comps, i - 1, vp)

\* Vfs::open
Vfs_open(comps, vp) == OpenFrom(comps, Len(comps), vp)

VirtualPaths == {<<"a">>, <<"b">>, <<"c">>, <<"d">>, <<"/", "etc", "passwd">>}

VfsOpen(vp) ==
    /\ pc = "connect"
    /\ opened' = Some([path |-> vp, ret |-> Vfs_open(components, vp)])
    /\ UNCHANGED <<regVars, conn, recv_mode, status, cl_nolerp, frame_time, components, data,
                   progs_op, kind, signon, pc, cmd, result, demo_left, storeVars>>

(***************************************************************************)
(* SpecVfs: sources are registered and paths opened, in any order.         *)
(***************************************************************************)
InitVfs == InitConnect

NextVfs ==
    \/ \E path \in PakPaths : AddPakfile(path)
    \/ \E path \in DirectoryPaths : AddDirectory(path)
    \/ \E vp \in VirtualPaths : VfsOpen(vp)

SpecVfs == InitVfs /\ [][NextVfs]_vars

(***************************************************************************)
(* The data memory of the Progs (progs.rs).  An f32 is its sign, biased    *)
(* exponent and mantissa; memory holds its four bytes, lowest first.       *)
(***************************************************************************)
F32(sign, exp, mant) == [sign |-> sign, exp |-> exp, mant |-> mant]

\* f32::to_le_bytes, as write_f32::<LittleEndian> lays the value out.
to_le_bytes(f) ==
    <<f.mant % 256,
      (f.mant \div 256) % 256,
      (f.exp % 2) * 128 + f.mant \div 65536,
      f.sign * 128 + f.exp \div 2>>

\* f32::from_le_bytes, as load_f32le reads the value.
from_le_bytes(b) ==
    F32(b[4] \div 128,
        (b[4] % 128) * 2 + b[3] \div 128,
        (b[3] % 128) * 65536 + b[2] * 256 + b[1])

\* The whole numbers the model computes with; f32 holds each of them exactly.
MaxWhole == 8
Wholes == -MaxWhole .. MaxWhole

RECURSIVE Log2(_)
Log2(n) == IF n <= 1 THEN 0 ELSE 1 + Log2(n \div 2)

\* The f32 of a whole number n.
ToF32(n) ==
    IF n = 0 THEN F32(0, 0, 0)
    ELSE LET a == Abs(n)
             e == Log2(a)
         IN  F32(IF n < 0 THEN 1 ELSE 0, 127 + e, (a - 2 ^ e) * 2 ^ (23 - e))

\* The whole number an f32 holds, if it holds one of Wholes.
FromF32(f) ==
    IF f = F32(0, 0, 0) THEN Some(0)
    ELSE IF f.exp < 127 \/ f.exp > 127 + Log2(MaxWhole) THEN None
    ELSE LET e == f.exp - 127
             a == 2 ^ e + f.mant \div 2 ^ (23 - e)
         IN  IF f.mant % 2 ^ (23 - e) # 0 \/ a > MaxWhole THEN None
             ELSE Some(IF f.sign = 1 THEN -a ELSE a)

\* Progs::load_f (progs.rs 198-200): the slice or the unwrap panics when
\* fewer than four bytes follow addr.
load_f(d, addr) ==
    IF addr + 4 > VecLen(d) THEN [ok |-> FALSE, val |-> F32(0, 0, 0)]
    ELSE [ok |-> TRUE,
          val |-> from_le_bytes(<<d[addr], d[addr + 1], d[addr + 2], d[addr + 3]>>)]

\* The bytes `bytes` written from addr on, as far as the slice reaches.
WriteBytes(d, addr, bytes) ==
    [i \in DOMAIN d |->
        IF addr <= i /\ i < addr + Len(bytes) THEN bytes[i - addr + 1] ELSE d[i]]

\* Progs::store_f (progs.rs 202-204); the io::Result of the write is dropped.
store_f(d, val, addr) == WriteBytes(d, addr, to_le_bytes(val))

\* Progs::load_v (progs.rs 206-213)
load_v(d, addr) ==
    IF addr + 12 > VecLen(d) THEN [ok |-> FALSE, val |-> <<>>]
    ELSE [ok |-> TRUE,
          val |-> <<load_f(d, addr).val, load_f(d, addr + 4).val,
                    load_f(d, addr + 8).val>>]

\* Every component is written at addr: the slice does not advance.
store_v_in_place(d, val, addr) ==
    store_f(store_f(store_f(d, val[1], addr), val[2], addr), val[3], addr)

\* Progs::store_v (progs.rs 215-221): each write advances the slice by four.
store_v(d, val, addr) ==
    WriteBytes(d, addr, to_le_bytes(val[1]) \o to_le_bytes(val[2]) \o to_le_bytes(val[3]))

\* i1 & i2 on i32, for whole numbers of the model (two's complement).
RECURSIVE BitAndNat(_, _)
BitAndNat(a, b) ==
    IF a = 0 \/ b = 0 THEN 0
    ELSE (a % 2) * (b % 2) + 2 * BitAndNat(a \div 2, b \div 2)
BitAnd(x, y) ==
    LET w == 4 * MaxWhole
        r == BitAndNat(x % w, y % w)
    IN  IF r >= w \div 2 THEN r - w ELSE r

\* add_f, sub_f, mul_f, div_f and bitand on two whole numbers (progs.rs
\* 224-291).
BinaryOps == {"add_f", "sub_f", "mul_f", "div_f", "bitand"}
Binary(op, x, y) ==
    CASE op = "add_f" -> x + y
      [] op = "sub_f" -> x - y
      [] op = "mul_f" -> x * y
      [] op = "div_f" -> IF (x < 0) = (y < 0) THEN Abs(x) \div Abs(y)
                         ELSE -(Abs(x) \div Abs(y))
      [] op = "bitand" -> BitAnd(x, y)

\* The operands are whole numbers and so is the result: f32 is exact.
Exact(op, x, y) ==
    /\ x.some /\ y.some
    /\ op = "div_f" => y.val # 0 /\ Abs(x.val) % Abs(y.val) = 0
    /\ (op # "div_f" \/ y.val # 0) => Binary(op, x.val, y.val) \in Wholes

\* The calls a Progs of the model takes.
MaxProgsOps == 2
Call(name, vals, addrs, ok, ret) ==
    [name |-> name, vals |-> vals, addrs |-> addrs, ok |-> ok, ret |-> ret,
     n |-> progs_op.n + 1]

ProgsStep ==
    /\ pc = "connect" /\ progs_op.n < MaxProgsOps
    /\ UNCHANGED <<regVars, conn, recv_mode, status, cl_nolerp, frame_time, components, opened,
                   kind, signon, pc, cmd, result, demo_left, storeVars>>

ProgsStoreF(val, addr) ==
    /\ ProgsStep
    /\ data' = store_f(data, val, addr)
    /\ progs_op' = Call("store_f", <<val>>, <<addr>>, TRUE, <<>>)

ProgsStoreV(val, addr) ==
    /\ ProgsStep
    /\ data' = store_v(data, val, addr)
    /\ progs_op' = Call("store_v", val, <<addr>>, TRUE, <<>>)

ProgsLoadF(addr) ==
    /\ ProgsStep
    /\ LET r == load_f(data, addr)
       IN  progs_op' = Call("load_f", <<>>, <<addr>>, r.ok,
                            IF r.ok THEN <<r.val>> ELSE <<>>)
    /\ UNCHANGED data

ProgsLoadV(addr) ==
    /\ ProgsStep
    /\ LET r == load_v(data, addr)
       IN  progs_op' = Call("load_v", <<>>, <<addr>>, r.ok, r.val)
    /\ UNCHANGED data

ProgsBinary(op, a1, a2, a3) ==
    /\ ProgsStep
    /\ load_f(data, a1).ok /\ load_f(data, a2).ok
    /\ LET x == FromF32(load_f(data, a1).val)
           y == FromF32(load_f(data, a2).val)
       IN  /\ Exact(op, x, y)
           /\ data' = store_f(data, ToF32(Binary(op, x.val, y.val)), a3)
    /\ progs_op' = Call(op, <<>>, <<a1, a2, a3>>, TRUE, <<>>)

(***************************************************************************)
(* SpecProgs: stores, loads and binary operators on a data memory of four  *)
(* floats, at aligned and unaligned addresses, up to the end of the slice. *)
(***************************************************************************)
ProgsLen == 16
ZeroImage == [i \in 0 .. ProgsLen - 1 |-> 0]
WholeImage ==
    LET b == to_le_bytes(ToF32(3)) \o to_le_bytes(ToF32(2))
             \o to_le_bytes(ToF32(-2)) \o to_le_bytes(ToF32(0))
    IN  [i \in 0 .. ProgsLen - 1 |-> b[i + 1]]

\* A quiet NaN and a negative subnormal among the whole numbers.
ProgsFloats ==
    {ToF32(0), ToF32(1), ToF32(-2), ToF32(3), F32(0, 255, 4194304), F32(1, 0, 1)}
ProgsVectors ==
    {<<ToF32(1), ToF32(-2), ToF32(3)>>,
     <<F32(0, 255, 4194304), ToF32(0), F32(1, 0, 1)>>}
ProgsAddrs == 0 .. ProgsLen
AlignedAddrs == {0, 4, 8, 12}

InitProgs ==
    /\ NotConnected /\ VfsIdle /\ frame_time = 0
    /\ data \in {ZeroImage, WholeImage}
    /\ progs_op = NoOp

NextProgs ==
    \/ \E val \in ProgsFloats, addr \in ProgsAddrs : ProgsStoreF(val, addr)
    \/ \E val \in ProgsVectors, addr \in ProgsAddrs : ProgsStoreV(val, addr)
    \/ \E addr \in ProgsAddrs : ProgsLoadF(addr)
    \/ \E addr \in ProgsAddrs : ProgsLoadV(addr)
    \/ \E op \in BinaryOps, a1, a2, a3 \in AlignedAddrs : ProgsBinary(op, a1, a2, a3)

SpecProgs == InitProgs /\ [][NextProgs]_vars

(***************************************************************************)
(* SpecSignOn: the client commands a live connection writes and sends      *)
(* while a server walks it through sign-on stages in any order.            *)
(***************************************************************************)
InitSignOn == InitConnection({"Server"}, {0})

SignOnOnlyAlphabet == SignOnStageCmds \cup SpawnBaselineCmds({0}, {1}, {0})

NextSignOn ==
    \/ FrameServer(Tick, FALSE, MaxTicks * Tick)
    \/ Decode(SignOnOnlyAlphabet)
    \/ EndOfMessage
    \/ DispatchSignOnStage
    \/ DispatchSpawnBaseline
    \/ UpdateInterpRatio
    \/ UpdateEntities
    \/ UpdateTempEntities
    \/ \E send \in SendOutcomes : FinishFrame(send)

SpecSignOn == InitSignOn /\ [][NextSignOn]_vars

(***************************************************************************)
(* Claims.                                                                 *)
(***************************************************************************)
(* C1: when update_entities runs, every entity with id >= 1 whose last     *)
(* update is not of msg_times[0] is freed (model id 0) and is not in the   *)
(* visible-entity list of that pass; a freed entity (model id 0) is in no  *)
(* later list either, until an update gives it a model again.              *)
C1_StaleEntityFreed ==
    [][(pc = "ents" /\ pc' = "temps")
        => \A id \in 1 .. VecLen(entities) - 1 :
              (entities[id].model_id = 0 \/ entities[id].msg_time # msg_times[0])
              => (entities'[id].model_id = 0
                  /\ id \notin SeqRange(visible_entity_ids'))]_vars

\* A pass has just freed an entity that had been spawned with a model (the
\* commands of SpecEntities carry no model id 0, and a placeholder has no
\* force_link), while another entity stays visible.
C1_Witness ==
    /\ pc = "temps"
    /\ \E id \in 1 .. VecLen(entities) - 1 :
          /\ entities[id].model_id = 0
          /\ entities[id] # uninitialized
          /\ entities[id].msg_time # msg_times[0]
          /\ id \notin SeqRange(visible_entity_ids)
    /\ visible_entity_ids # <<>>

(* C2: a FastUpdate dispatched in stage Begin moves the stage to Done and   *)
(* sets start_time to the render time of that moment, on a live connection *)
(* and in demo playback alike.                                             *)
C2_FastUpdateLatchesStartTime ==
    [][(pc = "dispatch" /\ cmd.tag = "FastUpdate" /\ signon = "Begin")
        => (signon' = "Done" /\ start_time' = time)]_vars

(* C3: once the stage is Done, no command other than a ServerInfo (which   *)
(* replaces the store) changes start_time.                                 *)
C3_StartTimeLatchedOnce ==
    [][(signon = "Done" /\ ~(pc = "dispatch" /\ cmd.tag = "ServerInfo"))
        => start_time' = start_time]_vars

(* C4: the stage becomes Done only by a FastUpdate dispatched in stage     *)
(* Begin, never by a SignOnStage command.                                  *)
C4_DoneOnlyByFastUpdate ==
    [][(signon # "Done" /\ signon' = "Done")
        => (pc = "dispatch" /\ cmd.tag = "FastUpdate" /\ signon = "Begin")]_vars

(* C5: a ServerInfo whose protocol_version is not PROTOCOL_VERSION makes   *)
(* frame return UnrecognizedProtocol and leaves every field of the store   *)
(* as it was before the command.                                           *)
C5_BadProtocolLeavesStore ==
    [][(pc = "dispatch" /\ cmd.tag = "ServerInfo"
            /\ cmd.protocol_version # PROTOCOL_VERSION)
        => (result' = "UnrecognizedProtocol" /\ pc' = "idle"
            /\ UNCHANGED storeVars)]_vars

\* A frame has failed with UnrecognizedProtocol on a store that holds
\* entities, loaded models and a server timestamp.
C5_Witness ==
    /\ pc = "idle" /\ result = "UnrecognizedProtocol"
    /\ VecLen(entities) > 0 /\ VecLen(models) > 1 /\ msg_times[0] > 0

(* C9: after update_interp_ratio, lerp_factor lies in [0, 1], whatever the *)
(* two message times and the render time are (a negative server delta and  *)
(* a render time outside the interval between the two included).           *)
C9_LerpFactorInUnitInterval ==
    /\ ~RLess(lerp_factor, RInt(0))
    /\ ~RLess(RInt(1), lerp_factor)

\* update_interp_ratio has run on a negative server delta and has produced a
\* ratio strictly inside the interval.
C9_Witness ==
    /\ pc = "ents"
    /\ msg_times[0] < msg_times[1]
    /\ RLess(RInt(0), lerp_factor)
    /\ RLess(lerp_factor, RInt(1))

(* C10: update_interp_ratio with msg_times[0] = msg_times[1], or with      *)
(* cl_nolerp non-zero, sets lerp_factor to exactly 1 and the render time   *)
(* to exactly msg_times[0], and leaves msg_times unchanged.                *)
C10_NoLerpSnapsToNewest ==
    [][(pc = "interp" /\ pc' = "ents"
          /\ (cl_nolerp # 0 \/ msg_times[0] = msg_times[1]))
        => (/\ lerp_factor' = RInt(1)
            /\ time' = msg_times[0]
            /\ msg_times' = msg_times)]_vars

\* update_interp_ratio has run with the cvar set on a server delta above the
\* cap and a render time away from the newest message time.
C10_Witness ==
    /\ pc = "ents"
    /\ cl_nolerp # 0
    /\ msg_times[0] - msg_times[1] > ServerDeltaCapMs
    /\ lerp_factor = RInt(1)
    /\ time = msg_times[0]

\* Slot i plays a sound (occupied, sink not drained).
ActiveSlot(chs, i) == chs[i].some /\ chs[i].val.in_use

\* Slot i plays a sound of entity e on its channel c.
PlaysFor(chs, i, e, c) ==
    ActiveSlot(chs, i) /\ chs[i].val.ent_id = e /\ chs[i].val.ent_channel = c

\* A Sound command is being dispatched and will reach start_sound.
SoundStarts ==
    /\ pc = "dispatch" /\ cmd.tag = "Sound"
    /\ cmd.entity_id < VecLen(entities)
    /\ cmd.sound_id < num_sounds

(* C6: find_free_channel(e, c) with c # 0 returns a slot that plays a      *)
(* sound of entity e on channel c whenever there is one, whatever the      *)
(* other slots hold, so start_sound replaces that sound; hence no two      *)
(* playing slots ever hold the same (entity id, non-zero channel) pair.    *)
C6_AffinitySlotReused ==
    /\ [][(/\ SoundStarts /\ pc' # "dispatch"
           /\ cmd.channel # 0
           /\ \E j \in 0 .. MAX_CHANNELS - 1 :
                 PlaysFor(channels, j, cmd.entity_id, cmd.channel))
          => \E j \in 0 .. MAX_CHANNELS - 1 :
                /\ PlaysFor(channels, j, cmd.entity_id, cmd.channel)
                /\ channels' = [channels EXCEPT ![j] =
                       Some(ClientChannel(msg_times[0], cmd.entity_id,
                                          cmd.channel))]]_vars
    /\ [](\A i, j \in 0 .. MAX_CHANNELS - 1 :
             (/\ i # j
              /\ ActiveSlot(channels, i)
              /\ channels[i].val.ent_channel # 0
              /\ PlaysFor(channels, j, channels[i].val.ent_id,
                          channels[i].val.ent_channel))
             => FALSE)

\* Every slot plays a sound and none matches the command by affinity.
PoolExhausted ==
    /\ SoundStarts
    /\ \A i \in 0 .. MAX_CHANNELS - 1 : ActiveSlot(channels, i)
    /\ \A i \in 0 .. MAX_CHANNELS - 1 :
          ~(/\ cmd.channel # 0
            /\ channels[i].val.ent_id = cmd.entity_id
            /\ (channels[i].val.ent_channel = cmd.channel \/ cmd.channel = -1))

\* Slot i has the minimal start time, and is the lowest such slot.
OldestSlot(chs, i) ==
    \A j \in 0 .. MAX_CHANNELS - 1 :
        /\ chs[i].val.start_time <= chs[j].val.start_time
        /\ j < i => chs[i].val.start_time < chs[j].val.start_time

(* C7: with every slot of the pool playing and none matching the request   *)
(* by affinity, find_free_channel returns the lowest index among the       *)
(* slots of minimal start time, a valid pool index, and start_sound        *)
(* stores the new sound there.                                             *)
C7_OldestSlotEvicted ==
    [][(PoolExhausted /\ pc' # "dispatch")
        => \E i \in 0 .. MAX_CHANNELS - 1 :
              /\ OldestSlot(channels, i)
              /\ find_free_channel(channels, cmd.entity_id, cmd.channel) = i
              /\ channels' = [channels EXCEPT ![i] =
                     Some(ClientChannel(msg_times[0], cmd.entity_id,
                                        cmd.channel))]]_vars

\* The pool is exhausted, the oldest sound is not in slot 0, and two slots
\* tie for the oldest start time.
C7_Witness ==
    /\ PoolExhausted
    /\ find_free_channel(channels, cmd.entity_id, cmd.channel) # 0
    /\ \E i, j \in 0 .. MAX_CHANNELS - 1 :
          i # j /\ OldestSlot(channels, i)
          /\ channels[j].val.start_time = channels[i].val.start_time

\* The occupied beam slots.
OccupiedBeams(bms) == {i \in 0 .. MAX_BEAMS - 1 : bms[i].some}

\* The beam slots owned by entity e.
BeamsOf(bms, e) == {i \in OccupiedBeams(bms) : bms[i].val.entity_id = e}

(* C8: spawn_beam for an entity id that already owns a beam slot rewrites  *)
(* that slot in place (model, start, end, expiry = time + 200 ms) and      *)
(* leaves the number of occupied slots as it was, whether or not a slot    *)
(* is free; hence no entity id ever owns more than one beam slot.          *)
C8_BeamRefreshedInPlace ==
    /\ [][(/\ pc = "dispatch" /\ cmd.tag = "TempEntityBeam" /\ pc' = "parse"
           /\ BeamsOf(beams, cmd.entity_id) # {})
          => (/\ \A i \in BeamsOf(beams, cmd.entity_id) :
                    beams'[i] = Some(Beam(time, cmd.entity_id,
                                          model_names[cmd.model_name],
                                          RInt(cmd.start), RInt(cmd.end)))
              /\ Cardinality(OccupiedBeams(beams'))
                    = Cardinality(OccupiedBeams(beams)))]_vars
    /\ [](\A i, j \in OccupiedBeams(beams) :
             beams[i].val.entity_id = beams[j].val.entity_id => i = j)

\* Entity id is interpolated by the pass about to run: it has a model, it was
\* updated in the newest message and its force-link flag is clear.
Interpolated(id) ==
    /\ entities[id].model_id # 0
    /\ entities[id].msg_time = msg_times[0]
    /\ ~entities[id].force_link

\* The squared distance between the two snapshot origins of entity id.
Displacement2(id) ==
    (entities[id].msg_origins[0] - entities[id].msg_origins[1])
    * (entities[id].msg_origins[0] - entities[id].msg_origins[1])

(* C11: update_entities renders an interpolated entity whose snapshot      *)
(* origins are more than 10,000 apart (squared) at the newest origin,      *)
(* whatever lerp_factor is, and any other at                               *)
(* prev + lerp_factor * (newest - prev).                                   *)
C11_TeleportSnapsToNewest ==
    [][(pc = "ents" /\ pc' = "temps")
        => \A id \in 1 .. VecLen(entities) - 1 :
              Interpolated(id)
              => entities'[id].origin =
                    IF Displacement2(id) > TeleportDist2
                    THEN RInt(entities[id].msg_origins[0])
                    ELSE RAdd(RInt(entities[id].msg_origins[1]),
                              RMul(lerp_factor,
                                   RInt(entities[id].msg_origins[0]
                                        - entities[id].msg_origins[1])))]_vars

\* The pass has run with a lerp_factor strictly inside (0, 1) and has left an
\* entity that moved 101 units or more between its snapshots at the newest
\* origin.
C11_Witness ==
    /\ pc = "temps"
    /\ RLess(RInt(0), lerp_factor) /\ RLess(lerp_factor, RInt(1))
    /\ \E id \in 1 .. VecLen(entities) - 1 :
          /\ id \in SeqRange(visible_entity_ids)
          /\ Displacement2(id) > TeleportDist2
          /\ entities[id].origin = RInt(entities[id].msg_origins[0])

\* The signed turn along the shorter arc from angle prev to angle newest.
ShorterArc(prev, newest) ==
    LET d == newest - prev
    IN  IF d > 180 THEN d - 360
        ELSE IF d < -180 THEN d + 360
        ELSE d

(* C12: update_entities turns an interpolated entity along the shorter arc *)
(* from its previous angle to its newest one, in both directions: the      *)
(* rendered angle is prev + factor * arc modulo 360, so it is the newest   *)
(* angle at factor 1 and 357.5 for 350 -> 5 at factor 0.5.                 *)
C12_AngleAlongShorterArc ==
    [][(pc = "ents" /\ pc' = "temps")
        => \A id \in 1 .. VecLen(entities) - 1 :
              Interpolated(id)
              => entities'[id].angles =
                    RNormalize(RAdd(RInt(entities[id].msg_angles[1]),
                                    RMul(RInt(ShorterArc(entities[id].msg_angles[1],
                                                         entities[id].msg_angles[0])),
                                         ent_lerp_factor(entities[id], lerp_factor))))]_vars

\* The command being dispatched names an entity id the store cannot accept:
\* a baseline for an entity that exists, a view entity out of range, a
\* sound on an entity that does not exist.
ReferentialError ==
    /\ pc = "dispatch"
    /\ \/ cmd.tag = "SpawnBaseline" /\ cmd.ent_id < VecLen(entities)
       \/ /\ cmd.tag = "SetView"
          /\ (cmd.ent_id <= 0
              \/ (cmd.ent_id > max_players /\ cmd.ent_id >= VecLen(entities)))
       \/ cmd.tag = "Sound" /\ cmd.entity_id >= VecLen(entities)

(* C13: a command rejected for a referential error is rejected alone: the  *)
(* loop goes on to the next command of the message (and the frame's        *)
(* interpolation steps run after it); only a Disconnect command or a       *)
(* ServerInfo of another protocol version ends the dispatch of a message   *)
(* that has commands left.                                                 *)
C13_RejectedCommandAlone ==
    /\ [][ReferentialError => pc' = "parse"]_vars
    /\ [][(pc = "dispatch" /\ pc' \notin {"dispatch", "parse", "panic"})
          => \/ cmd.tag = "Disconnect"
             \/ /\ cmd.tag = "ServerInfo"
                /\ cmd.protocol_version # PROTOCOL_VERSION]_vars

(* C14: once a Disconnect command has been dispatched, or the demo source  *)
(* is exhausted, the frame ends with the connection torn down: the Client  *)
(* holds no connection from then on, and no later frame receives for the   *)
(* old store or changes it.                                                *)
C14_DisconnectTearsDown ==
    /\ []((pc = "idle" /\ status = "Disconnect") => ~conn)
    /\ [][(pc = "idle" /\ status = "Disconnect")
          => (pc' = "idle" /\ UNCHANGED storeVars)]_vars

(* C15: on a live connection the receive of every frame is NonBlocking     *)
(* exactly when the sign-on stage is Done at the moment of the call, and   *)
(* has the bounded timeout in every other stage.                           *)
C15_NonBlockingOnlyWhenDone ==
    [][(pc = "idle" /\ pc' # "idle" /\ kind = "Server")
        => /\ signon = "Done" => recv_mode' = "NonBlocking"
           /\ signon # "Done" => recv_mode' = "Timeout"]_vars

\* A frame of a live connection in stage Done has received without blocking
\* and is dispatching a command, after an earlier frame that waited.
C15_Witness ==
    /\ kind = "Server"
    /\ pc = "dispatch"
    /\ signon = "Done"
    /\ recv_mode = "NonBlocking"
    /\ start_time > 0

(* C16: in demo playback a frame takes the next recorded message only if   *)
(* the render time has reached msg_times[0] at the receive; otherwise it   *)
(* takes none, dispatches no command and returns Maintain.  Messages are   *)
(* taken one per frame at most, at the receive only, and never put back.   *)
C16_DemoPacedByRenderTime ==
    /\ [][(pc = "idle" /\ pc' # "idle" /\ kind = "Demo")
          => IF time' >= msg_times[0]
             THEN demo_left > 0 => (demo_left' = demo_left - 1 /\ pc' = "parse")
             ELSE /\ demo_left' = demo_left
                  /\ pc' = "interp"
                  /\ status' = "Maintain"]_vars
    /\ [][demo_left' # demo_left
          => (pc = "idle" /\ demo_left' = demo_left - 1)]_vars

\* A frame after the first has refused to take the second message: the render
\* time is behind the time of the first one.
C16_Witness ==
    /\ kind = "Demo"
    /\ pc = "interp"
    /\ status = "Maintain"
    /\ demo_left = MaxDemoMsgs - 1
    /\ time > DemoFrame
    /\ time < msg_times[0]

(* C17: the reconnect command, run between frames in any sign-on stage,    *)
(* sets the stage to Not: signon_stage() reports Not and entities() and    *)
(* models() return None; the next receive of a live connection in stage    *)
(* Not uses the timeout mode; a FastUpdate dispatched in a stage other     *)
(* than Begin leaves the stage as it is.                                   *)
C17_ReconnectObserved ==
    /\ [][(pc = "idle" /\ pc' = "idle" /\ kind = "Server")
          => /\ Client_signon_stage' = "Not"
             /\ Client_entities' = None
             /\ Client_models' = None]_vars
    /\ [][(pc = "idle" /\ pc' # "idle" /\ kind = "Server" /\ signon = "Not")
          => recv_mode' = "Timeout"]_vars
    /\ [][(pc = "dispatch" /\ cmd.tag = "FastUpdate" /\ signon # "Begin")
          => signon' = signon]_vars

\* The sign-on had reached Done, the command was run between two frames, and
\* the frame after it has received with a timeout and decoded a FastUpdate.
C17_Witness ==
    /\ kind = "Server"
    /\ pc = "dispatch"
    /\ cmd.tag = "FastUpdate"
    /\ start_time > 0
    /\ recv_mode = "Timeout"
    /\ Client_signon_stage = "Not"
    /\ Client_entities = None

(* C18: `reconnect` is the only command the client core ever registers,    *)
(* and no command of the core is left registered once connect has          *)
(* returned an error or the Client has been dropped.                       *)
C18_OnlyReconnectRegistered ==
    /\ cmds \subseteq {"reconnect"}
    /\ pc \in {"failed", "dropped"} => cmds = {}

(* C19: connect sends at most MAX_CONNECT_ATTEMPTS requests; it leaves the *)
(* loop at the first response whose sender is the requested address, and   *)
(* any other reply but an I/O error only uses up an attempt; with no such  *)
(* response after the last attempt it returns NoResponse; whenever it      *)
(* fails it returns a typed error and no Connection or store exists.       *)
C19_ConnectBudget ==
    /\ [](attempt <= MAX_CONNECT_ATTEMPTS)
    /\ [][(pc = "match" /\ reply.tag = "Response" /\ reply.remote = ServerAddr)
          => (pc' = "finish" /\ response' = Some(reply.resp))]_vars
    /\ [][(pc = "match" /\ reply.tag # "Io"
           /\ ~(reply.tag = "Response" /\ reply.remote = ServerAddr))
          => /\ response' = None
             /\ pc' = IF attempt < MAX_CONNECT_ATTEMPTS THEN "send" ELSE "finish"]_vars
    /\ [](response # None => pc \notin {"send", "recv", "match"})
    /\ [][(pc = "finish" /\ response = None)
          => (attempt = MAX_CONNECT_ATTEMPTS /\ pc' = "failed"
              /\ result' = "NoResponse")]_vars
    /\ [](pc = "failed"
          => /\ result \in {"Io", "InvalidServerAddress", "NoResponse",
                            "ConnectionRejected", "InvalidConnectResponse",
                            "InvalidConnectPort"}
             /\ ~conn
             /\ StoreIs(NoStore))

\* The third request went unanswered by the server asked, after a reply from
\* another address, and connect has returned NoResponse.
C19_Witness ==
    /\ pc = "failed"
    /\ result = "NoResponse"
    /\ attempt = MAX_CONNECT_ATTEMPTS
    /\ reply.tag = "Response" /\ reply.remote # ServerAddr
    /\ ~conn

(* C20: SetView with entity id n is accepted exactly when n > 0 and        *)
(* (n <= max_players or n < entities.len()); accepted, the view entity id  *)
(* becomes n; otherwise the command fails with InvalidViewEntity and the   *)
(* view entity id is unchanged.                                            *)
C20_SetViewValidated ==
    [][(pc = "dispatch" /\ cmd.tag = "SetView" /\ pc' # "dispatch")
        => IF cmd.ent_id > 0
              /\ (cmd.ent_id <= max_players \/ cmd.ent_id < VecLen(entities))
           THEN view_entity' = cmd.ent_id /\ pc' = "parse"
           ELSE /\ view_entity' = view_entity
                /\ pc' = "idle"
                /\ result' = "InvalidViewEntity"]_vars

\* A SetView naming an entity beyond the player slots and the entity table was
\* refused after an earlier one had been accepted.
C20_Witness ==
    /\ pc = "idle"
    /\ result = "InvalidViewEntity"
    /\ view_entity > 0
    /\ max_players > 0
    /\ VecLen(entities) > 0

(* C21: each Damage command adds 3 * min(armor + blood, 20) / 2, the       *)
(* product divided by 2, to the damage overlay percent and clamps the      *)
(* result to [0, 150], odd sums of armor and blood included.               *)
C21_DamageAddsHalvedProduct ==
    [][(pc = "dispatch" /\ cmd.tag = "Damage" /\ pc' = "parse")
        => LET m == IF cmd.armor + cmd.blood < 20 THEN cmd.armor + cmd.blood ELSE 20
               p == cshift_percent + (3 * m) \div 2
           IN  cshift_percent' = IF p > 150 THEN 150 ELSE p]_vars

(* C22: a ClientData command sets item_get_time[i] to the render time      *)
(* exactly for the bits i set in the new item flags and clear in the old   *)
(* ones, leaves every other entry as it was, and stores the new flags.     *)
C22_PickupTimesRecorded ==
    [][(pc = "dispatch" /\ cmd.tag = "ClientData" /\ pc' = "parse")
        => /\ \A i \in 0 .. MAX_ITEMS - 1 :
                item_get_time'[i] =
                    IF Bit(cmd.items, i) = 1 /\ Bit(items, i) = 0
                    THEN time ELSE item_get_time[i]
           /\ items' = cmd.items]_vars

\* Item 1 has just been picked up while item 0, picked up in an earlier frame
\* and lost since, keeps its earlier time.
C22_Witness ==
    /\ pc = "parse"
    /\ Bit(items, 0) = 0 /\ Bit(items, 1) = 1
    /\ item_get_time[0] > 0
    /\ item_get_time[1] = time
    /\ time > item_get_time[0]

\* Slot i of the pool matches a request of entity e on channel c by affinity.
AffinityMatch(chs, i, e, c) ==
    /\ ActiveSlot(chs, i)
    /\ c # 0
    /\ chs[i].val.ent_id = e
    /\ (chs[i].val.ent_channel = c \/ c = -1)

\* The scan stops at slot i: unoccupied, finished, or matched by affinity.
ScanStopsAt(chs, i, e, c) == ~ActiveSlot(chs, i) \/ AffinityMatch(chs, i, e, c)

(* C23: find_free_channel returns the lowest-index slot that is unoccupied *)
(* or finished, unless an active slot below it matches the request by      *)
(* affinity (channel # 0, same entity, equal channel or requested channel  *)
(* -1), and then that lower slot; a request on channel 0 matches no slot.  *)
C23_ScanInIndexOrder ==
    [][(SoundStarts /\ pc' # "dispatch")
        => \A i \in 0 .. MAX_CHANNELS - 1 :
              (/\ ScanStopsAt(channels, i, cmd.entity_id, cmd.channel)
               /\ \A j \in 0 .. i - 1 :
                     ~ScanStopsAt(channels, j, cmd.entity_id, cmd.channel))
              => /\ find_free_channel(channels, cmd.entity_id, cmd.channel) = i
                 /\ channels' = [channels EXCEPT ![i] =
                        Some(ClientChannel(msg_times[0], cmd.entity_id,
                                           cmd.channel))]]_vars

\* A request on channel 0 passed slot 0, which plays a sound of the same
\* entity on channel 0, and took slot 1; the last slot is untouched.
C23_Witness ==
    /\ pc = "parse"
    /\ PlaysFor(channels, 0, 2, 0) /\ channels[0].val.start_time = 0
    /\ PlaysFor(channels, 1, 2, 0) /\ channels[1].val.start_time = msg_times[0]
    /\ msg_times[0] > 0
    /\ ~channels[2].some

(* C24: a Version command whose version differs from the protocol's is     *)
(* reported to the caller of frame as an error result and never crashes    *)
(* the client; one with the matching version changes nothing.              *)
C24_VersionMismatchIsAnError ==
    [][(pc = "dispatch" /\ cmd.tag = "Version" /\ pc' # "dispatch")
        => IF cmd.version # PROTOCOL_VERSION
           THEN pc' = "idle" /\ result' # "Ok"
           ELSE pc' = "parse" /\ UNCHANGED <<signon, storeVars>>]_vars

\* A roster command is being dispatched.
RosterStep ==
    /\ pc = "dispatch" /\ pc' # "dispatch"
    /\ cmd.tag \in {"UpdateName", "UpdateColors", "UpdateFrags"}

(* C28: UpdateName on an unoccupied slot creates a record with the name,   *)
(* colors (0, 0) and frags 0; on an occupied slot it changes the name      *)
(* alone; UpdateColors and UpdateFrags on an unoccupied slot leave it      *)
(* unoccupied and return no error; no roster command changes another slot. *)
C28_JoinAndRename ==
    /\ [][(RosterStep /\ cmd.tag = "UpdateName" /\ pc' = "parse")
          => player_info'[cmd.player_id] =
                IF player_info[cmd.player_id].some
                THEN Some([name |-> cmd.new_name,
                           colors |-> player_info[cmd.player_id].val.colors,
                           frags |-> player_info[cmd.player_id].val.frags])
                ELSE Some([name |-> cmd.new_name, colors |-> <<0, 0>>,
                           frags |-> 0])]_vars
    /\ [][(/\ RosterStep /\ cmd.tag \in {"UpdateColors", "UpdateFrags"}
           /\ cmd.player_id < MAX_CLIENTS /\ cmd.player_id <= max_players
           /\ ~player_info[cmd.player_id].some)
          => pc' = "parse" /\ player_info' = player_info]_vars
    /\ [][RosterStep
          => \A j \in 0 .. MAX_CLIENTS - 1 :
                j # cmd.player_id => player_info'[j] = player_info[j]]_vars

\* The player of slot 0 joined and has since been given colors, frags and the
\* name b, while slot 1, open to commands since the ServerInfo, is unoccupied.
C28_Witness ==
    /\ pc = "parse"
    /\ max_players = 1
    /\ player_info[0] = Some([name |-> "b", colors |-> <<1, 2>>, frags |-> 5])
    /\ ~player_info[1].some

(* C29: a roster command whose player id is at or beyond max_players is    *)
(* rejected with NoSuchClient (id >= MAX_CLIENTS) or NoSuchPlayer and      *)
(* leaves the roster unchanged; every occupied slot is below max_players.  *)
C29_RosterWithinMaxPlayers ==
    /\ [][(RosterStep /\ cmd.player_id >= max_players)
          => /\ pc' = "idle"
             /\ result' = IF cmd.player_id >= MAX_CLIENTS
                          THEN "NoSuchClient" ELSE "NoSuchPlayer"
             /\ player_info' = player_info]_vars
    /\ [](\A i \in 0 .. MAX_CLIENTS - 1 : player_info[i].some => i < max_players)

(* C25: a FastUpdate for an entity id at or beyond the end of the entity   *)
(* table (id = entities.len() included) grows the table to id + 1 entries, *)
(* the gap filled with uninitialized entities, and applies the update; it  *)
(* neither fails nor crashes; one for an existing id keeps the length.     *)
C25_FastUpdateGrowsTable ==
    [][(/\ pc = "dispatch" /\ cmd.tag = "FastUpdate" /\ pc' # "dispatch"
        /\ cmd.model_id < VecLen(models))
        => /\ pc' = "parse"
           /\ VecLen(entities') = IF cmd.ent_id >= VecLen(entities)
                                  THEN cmd.ent_id + 1 ELSE VecLen(entities)
           /\ \A i \in VecLen(entities) .. cmd.ent_id - 1 :
                 entities'[i] = uninitialized
           /\ entities'[cmd.ent_id].msg_time = msg_times[0]]_vars

(* C27: after a ServerInfo command of the protocol's version succeeds the  *)
(* store is a freshly constructed one but for the model and sound tables   *)
(* and max_players = max_clients: entities, temp entities, beams, visible  *)
(* entities, roster, items, overlay, message times, render time,           *)
(* start_time and sound channels are reset; the sign-on stage is kept.     *)
C27_ServerInfoResetsStore ==
    [][(pc = "dispatch" /\ cmd.tag = "ServerInfo" /\ pc' = "parse")
        => /\ cmd.protocol_version = PROTOCOL_VERSION
           /\ Store' = [ClientState_new EXCEPT
                            !.models = models',
                            !.model_names = model_names',
                            !.num_sounds = num_sounds',
                            !.max_players = cmd.max_clients]
           /\ VecLen(models') > 1
           /\ num_sounds' = 1 + Len(cmd.sound_precache)
           /\ signon' = signon]_vars

\* A ServerInfo has been handled in this frame: the render time the frame had
\* advanced is back at zero and the store is empty but for the tables.
C27_Witness ==
    /\ pc = "parse"
    /\ status = "Maintain" /\ recv_mode = "Timeout"
    /\ time = 0
    /\ max_players = 1
    /\ VecLen(models) = 3
    /\ VecLen(entities) = 0
    /\ \A i \in 0 .. MAX_CLIENTS - 1 : ~player_info[i].some
    /\ \A i \in 0 .. MAX_CHANNELS - 1 : ~channels[i].some

\* The beam slot survives a pass at render time t.
Unexpired(bms, i, t) == bms[i].some /\ bms[i].val.expire >= t

\* The origins of the segments of a beam, one every BeamSegmentLen units.
SegmentsOf(beam) ==
    LET vec == RSub(beam.end, beam.start)
        n == RTrunc(RMul(RAbs(vec), <<1, BeamSegmentLen>>))
    IN  [k \in 1 .. n |->
            RAdd(beam.start, RInt(BeamSegmentLen * (k - 1) * RSign(vec)))]

\* The segments of the unexpired beams of the slots from id on, in slot order.
RECURSIVE SegmentsFrom(_, _, _)
SegmentsFrom(bms, id, t) ==
    IF id >= MAX_BEAMS THEN <<>>
    ELSE (IF Unexpired(bms, id, t) THEN SegmentsOf(bms[id].val) ELSE <<>>)
         \o SegmentsFrom(bms, id + 1, t)

(* C30: update_temp_entities rebuilds the temp-entity list from scratch:   *)
(* it holds the segments of the beams unexpired at the render time and of  *)
(* no other (a beam goes once its expiry is strictly before the render     *)
(* time), never more than MAX_TEMP_ENTITIES of them, and the segments      *)
(* beyond the cap are dropped with no error.                               *)
C30_TempEntitiesRebuilt ==
    [][(pc = "temps" /\ pc' # "panic")
        => LET all == SegmentsFrom(beams, 0, time)
               kept == IF Len(all) < MAX_TEMP_ENTITIES
                       THEN Len(all) ELSE MAX_TEMP_ENTITIES
           IN  /\ pc' = "post" /\ result' = result
               /\ temp_entities' = SubSeq(all, 1, kept)
               /\ Len(temp_entities') <= MAX_TEMP_ENTITIES
               /\ \A i \in 0 .. MAX_BEAMS - 1 :
                     beams'[i].some <=> Unexpired(beams, i, time)]_vars

\* Two beams of two segments each are alive and the list holds the first
\* MAX_TEMP_ENTITIES of their four segments.
C30_Witness ==
    /\ pc = "post"
    /\ \A i \in 0 .. MAX_BEAMS - 1 : Unexpired(beams, i, time)
    /\ Len(SegmentsFrom(beams, 0, time)) > MAX_TEMP_ENTITIES
    /\ Len(temp_entities) = MAX_TEMP_ENTITIES


(***************************************************************************)
(* C26: on a live connection `begin` is never written to the outgoing      *)
(* buffer unless the name, color and spawn commands were written earlier   *)
(* on the same connection, and a send hands the buffer over whole, its     *)
(* commands in the order they were written.                                *)
(***************************************************************************)
Emitted == sent \o compose

PrecededByClientInfo(out, i) ==
    \A c \in {"name", "color", "spawn"} : \E j \in 1 .. i - 1 : out[j] = c

C26_BeginAfterClientInfo ==
    /\ [](kind = "Server" =>
            \A i \in 1 .. Len(Emitted) :
                Emitted[i] = "begin" => PrecededByClientInfo(Emitted, i))
    /\ [][sent' # sent => sent' = sent \o compose /\ compose' = <<>>]_vars


\* The free beam slots.
FreeBeams(bms) == {i \in 0 .. MAX_BEAMS - 1 : ~bms[i].some}

\* A TempEntity beam of a loaded model for an entity that owns no beam is
\* about to be dispatched.
NewBeamDispatched ==
    /\ pc = "dispatch" /\ cmd.tag = "TempEntityBeam"
    /\ cmd.model_name \in DOMAIN model_names
    /\ BeamsOf(beams, cmd.entity_id) = {}

(***************************************************************************)
(* C31: spawn_beam for an entity id that owns no beam stores the new beam  *)
(* (expiry = time + 200 ms) in the lowest-index free slot and leaves every *)
(* other slot unchanged; when no slot is free the beam table is left       *)
(* unchanged and no error is raised.                                       *)
(***************************************************************************)
C31_NewBeamInLowestFreeSlot ==
    [][NewBeamDispatched
       => /\ pc' = "parse" /\ result' = result
          /\ IF FreeBeams(beams) = {}
             THEN beams' = beams
             ELSE LET i == CHOOSE k \in FreeBeams(beams) :
                               \A j \in FreeBeams(beams) : k <= j
                  IN  beams' = [beams EXCEPT ![i] =
                                    Some(Beam(time, cmd.entity_id,
                                              model_names[cmd.model_name],
                                              RInt(cmd.start), RInt(cmd.end)))]]_vars

\* A beam for a third entity arrives while every slot is taken.
C31_Witness == NewBeamDispatched /\ FreeBeams(beams) = {}


\* The interpolation pass of the last frame ran to its end and no command
\* has been dispatched since.
PassCompleted == pc \in {"temps", "post"} \/ (pc = "idle" /\ result = "Ok")

\* What the renderer is handed.
Rendered ==
    iter_visible_entities(entities, visible_entity_ids, temp_entities, static_entities)

(***************************************************************************)
(* C32: after a completed interpolation pass iter_visible_entities yields  *)
(* the networked entities in strictly ascending id order without           *)
(* duplicates (never id 0, never an entity whose model id is 0, only       *)
(* entities updated at msg_times[0]), then all temp entities, then all     *)
(* static entities; the id list is rebuilt from scratch on each pass.      *)
(***************************************************************************)
C32_VisibleInAscendingOrder ==
    PassCompleted =>
        LET ids == visible_entity_ids
            n == Len(ids)
            t == Len(temp_entities)
        IN  /\ \A i, j \in 1 .. n : i < j => ids[i] < ids[j]
            /\ SeqRange(ids) = {e \in 1 .. VecLen(entities) - 1 :
                                    /\ entities[e].model_id # 0
                                    /\ entities[e].msg_time = msg_times[0]}
            /\ Len(Rendered) = n + t + Len(static_entities)
            /\ \A i \in 1 .. n : Rendered[i] = Ref("entities", ids[i])
            /\ SubSeq(Rendered, n + 1, n + t) = RefsInto("temp_entities", t)
            /\ SubSeq(Rendered, n + t + 1, Len(Rendered))
                   = RefsInto("static_entities", Len(static_entities))

\* A frame has ended with two networked entities, beam segments and a static
\* entity to draw.
C32_Witness ==
    /\ pc = "idle" /\ result = "Ok"
    /\ visible_entity_ids = <<1, 2>>
    /\ Len(temp_entities) >= 2
    /\ Len(static_entities) >= 1


\* Sequence a is a prefix of sequence b.
IsPrefix(a, b) == Len(a) <= Len(b) /\ SubSeq(b, 1, Len(a)) = a

(***************************************************************************)
(* C33: every control command emitted on a sign-on stage entry of a live   *)
(* connection is transmitted exactly once and in emission order: it stays  *)
(* in the compose buffer across frames (frames aborted by a dispatch error *)
(* included) until a frame finds can_send true, and the buffer is cleared  *)
(* only after a successful send.  The stream sent \o compose only grows at *)
(* its end, and what is sent is exactly what was waiting in compose.  A    *)
(* begin_send_msg that returns an error is taken to have sent nothing.     *)
(***************************************************************************)
C33_EmittedSentOnce ==
    /\ [][IsPrefix(Emitted, Emitted')]_vars
    /\ [][IsPrefix(sent, sent')]_vars
    /\ [][compose' # compose
            => \/ IsPrefix(compose, compose') /\ sent' = sent
               \/ compose' = <<>> /\ sent' = sent \o compose]_vars
    /\ [][(pc' = "idle" /\ result' \notin {"Ok", "Net"}) => UNCHANGED outVars]_vars

\* A frame was aborted by a dispatch error while commands wait in compose,
\* after an earlier frame had sent the commands before them.
C33_Witness ==
    /\ pc = "idle" /\ result = "EntityExists"
    /\ sent = <<"prespawn">>
    /\ compose = <<"name", "color", "spawn">>


\* Source c holds the virtual path vp: an archive holds the name, a
\* directory has the file below it.
Contains(c, vp) ==
    IF c.tag = "Pak" THEN vp \in c.files
    ELSE ~IsAbsolute(vp) /\ c.path \o vp \in HostFiles

\* The file of source c at vp.
FileOf(c, vp) ==
    [tag |-> IF c.tag = "Pak" THEN "PakBacked" ELSE "FileBacked", path |-> c.path \o vp]

(***************************************************************************)
(* C34: Vfs::open(path) resolves against the registered sources in reverse *)
(* registration order: it returns the file of the most recently added      *)
(* source (pak or directory) that contains the path, and NoSuchFile(path)  *)
(* exactly when no registered source contains it; open never changes the   *)
(* set or order of sources.                                                *)
(***************************************************************************)
C34_LastSourceWins ==
    [][opened' # opened
       => LET vp == opened'.val.path
              holders == {i \in 1 .. Len(components) : Contains(components[i], vp)}
          IN  /\ components' = components
              /\ IF holders = {}
                 THEN opened'.val.ret = [tag |-> "NoSuchFile", path |-> vp]
                 ELSE opened'.val.ret
                         = FileOf(components[CHOOSE i \in holders :
                                                \A j \in holders : j <= i], vp)]_vars


\* A call on the Progs has just returned.
ProgsCalled(names) == progs_op'.n # progs_op.n /\ progs_op'.name \in names

\* Only the `size` bytes from addr on have changed.
OnlyWritten(addr, size) ==
    /\ DOMAIN data' = DOMAIN data
    /\ \A i \in DOMAIN data : (i < addr \/ i >= addr + size) => data'[i] = data[i]

(***************************************************************************)
(* C35: Progs data memory round-trips: store_f(v, a) followed by load_f(a) *)
(* returns v, and store_v(v, a) followed by load_v(a) returns v, for every *)
(* value and every in-range address; a store changes only the 4 (float) or *)
(* 12 (vector) bytes starting at a, and the binary operators (add_f,       *)
(* sub_f, mul_f, div_f, bitand) write only at their result address the     *)
(* operation applied to the values loaded from the two operand addresses.  *)
(***************************************************************************)
C35_ProgsMemoryRoundTrips ==
    /\ [][(ProgsCalled({"store_f"}) /\ progs_op'.addrs[1] + 4 <= VecLen(data))
          => /\ load_f(data', progs_op'.addrs[1])
                   = [ok |-> TRUE, val |-> progs_op'.vals[1]]
             /\ OnlyWritten(progs_op'.addrs[1], 4)]_vars
    /\ [][(ProgsCalled({"store_v"}) /\ progs_op'.addrs[1] + 12 <= VecLen(data))
          => /\ load_v(data', progs_op'.addrs[1])
                   = [ok |-> TRUE, val |-> progs_op'.vals]
             /\ OnlyWritten(progs_op'.addrs[1], 12)]_vars
    /\ [][(ProgsCalled({"load_f", "load_v"}) /\ progs_op.name \in {"store_f", "store_v"}
           /\ progs_op'.name = (IF progs_op.name = "store_f" THEN "load_f" ELSE "load_v")
           /\ progs_op'.addrs = progs_op.addrs /\ progs_op'.ok)
          => progs_op'.ret = progs_op.vals]_vars
    /\ [][ProgsCalled(BinaryOps)
          => LET a == progs_op'.addrs
                 x == FromF32(load_f(data, a[1]).val).val
                 y == FromF32(load_f(data, a[2]).val).val
             IN  /\ load_f(data', a[3]).val = ToF32(Binary(progs_op'.name, x, y))
                 /\ OnlyWritten(a[3], 4)]_vars

\* A vector stored at an unaligned address has been read back.
C35_Witness ==
    /\ progs_op.name = "load_v" /\ progs_op.n = 2
    /\ progs_op.addrs = <<3>>
    /\ progs_op.ret = <<ToF32(1), ToF32(-2), ToF32(3)>>


(***************************************************************************)
(* C36: in every reachable state, after a frame aborted by a dispatch      *)
(* error and after a ServerInfo reset too, every id in visible_entity_ids  *)
(* is >= 1 and < entities.len(), so iter_visible_entities never indexes    *)
(* outside the entity table.                                               *)
(***************************************************************************)
C36_VisibleIdsInTable ==
    /\ \A i \in 1 .. Len(visible_entity_ids) :
          visible_entity_ids[i] >= 1 /\ visible_entity_ids[i] < VecLen(entities)
    /\ ~iter_visible_entities_panics(entities, visible_entity_ids)

\* A frame was aborted by a dispatch error after the table had grown past
\* the entities of the last pass.
C36_Witness ==
    /\ pc = "idle" /\ result = "EntityExists"
    /\ visible_entity_ids = <<1>>
    /\ VecLen(entities) = 3


\* A beam that update_temp_entities re-anchors at the view entity.
ViewBeamPending ==
    \E id \in 0 .. MAX_BEAMS - 1 :
        /\ beams[id].some
        /\ beams[id].val.expire >= time
        /\ beams[id].val.entity_id = view_entity

(***************************************************************************)
(* C37: whenever a handler reads or writes entities[view entity id] (the   *)
(* Damage handler, the beam re-anchor in update_temp_entities, the         *)
(* listener update run each frame in stage Done), the view entity id is    *)
(* < entities.len(): no sequence of server commands leads to an            *)
(* out-of-bounds entity access.                                            *)
(***************************************************************************)
C37_ViewEntityInTable ==
    /\ (pc = "dispatch" /\ cmd.tag = "Damage") => view_entity < VecLen(entities)
    /\ (pc = "temps" /\ ViewBeamPending) => view_entity < VecLen(entities)
    /\ (pc = "post" /\ signon = "Done") => view_entity < VecLen(entities)
    /\ pc # "panic"


\* The smaller and the larger of two times, and the size of a delta.
MinTime(a, b) == IF a < b THEN a ELSE b
MaxTime(a, b) == IF a < b THEN b ELSE a
AbsDelta(d) == IF d < 0 THEN -d ELSE d

\* The raw ratio (t - mt[1]) / (mt[0] - mt[1]) lies below -0.01, above 1.01.
RawBelow(t, mt) ==
    LET d == mt[0] - mt[1]
    IN  IF d > 0 THEN 100 * (t - mt[1]) < -d ELSE 100 * (t - mt[1]) > -d
RawAbove(t, mt) ==
    LET d == mt[0] - mt[1]
    IN  IF d > 0 THEN 100 * (t - mt[1]) > 101 * d ELSE 100 * (t - mt[1]) < 101 * d

(***************************************************************************)
(* C38: update_interp_ratio with cl_nolerp = 0 and msg_times[0] #          *)
(* msg_times[1] leaves a server delta of at most 100 ms (msg_times[1] is   *)
(* pulled up to msg_times[0] - 100 ms when the delta was larger,           *)
(* msg_times[0] is never changed), and leaves the render time within the   *)
(* interval between the two timestamps widened by 1% of the delta on each  *)
(* side: the time is snapped to msg_times[1] when the raw ratio is below   *)
(* -0.01, to msg_times[0] when it is above 1.01, and is kept otherwise.    *)
(***************************************************************************)
C38_RenderTimeNearMessageTimes ==
    [][(pc = "interp" /\ pc' = "ents" /\ cl_nolerp = 0 /\ msg_times[0] # msg_times[1])
        => LET d == msg_times'[0] - msg_times'[1]
           IN  /\ msg_times'[0] = msg_times[0]
               /\ msg_times'[1] = IF msg_times[0] - msg_times[1] > ServerDeltaCapMs
                                  THEN msg_times[0] - ServerDeltaCapMs
                                  ELSE msg_times[1]
               /\ d <= ServerDeltaCapMs
               /\ 100 * time' >= 100 * MinTime(msg_times'[0], msg_times'[1]) - AbsDelta(d)
               /\ 100 * time' <= 100 * MaxTime(msg_times'[0], msg_times'[1]) + AbsDelta(d)
               /\ time' = (IF RawBelow(time, msg_times') THEN msg_times'[1]
                           ELSE IF RawAbove(time, msg_times') THEN msg_times'[0]
                           ELSE time)]_vars

\* update_interp_ratio has run on a server delta of the full 100 ms and has
\* kept a render time 1 ms (1% of the delta) below the older timestamp.
C38_Witness ==
    /\ pc = "ents"
    /\ cl_nolerp = 0
    /\ msg_times[0] - msg_times[1] = ServerDeltaCapMs
    /\ time = msg_times[1] - 1
    /\ lerp_factor = RInt(0)


(***************************************************************************)
(* SpecOverlay: the damage and bonus overlays of a live connection.  The   *)
(* server loads the world, spawns the player entity and ends the sign-on;  *)
(* Damage commands and the console command `bf` raise the overlays and the *)
(* end of every completed frame of stage Done lets them decay.  The host   *)
(* calls frame again and again, with a frame time of 0 once the render     *)
(* time has reached its bound, and every step of a frame is taken.  To     *)
(* keep the pairs of overlay values few, the server sends Damage only      *)
(* while the bonus overlay is clear, and the host runs `bf` only while the *)
(* damage overlay is at most MaxHit (one hit of 20 points).                *)
(***************************************************************************)
MaxHit == 30

OverlayAlphabet ==
    ServerInfoCmds({PROTOCOL_VERSION}, {<<"maps/start.bsp">>}, {TRUE})
    \cup SpawnBaselineCmds({0}, {1}, {0})
    \cup {[tag |-> "SignOnStage", stage |-> "Done"]}
    \cup DamageCmds({0}, {2, 20})

DecodeOverlay ==
    /\ Decode(OverlayAlphabet)
    /\ cmd'.tag = "Damage" => bonus_percent = 0

\* The closure registered as `bf` (mod.rs 614-624), run by the host between
\* two frames.
ExecuteBf ==
    /\ pc = "idle"
    /\ "bf" \in cmds
    /\ bonus_percent' = 50
    /\ UNCHANGED <<regVars, connVars, timeVars, entVars, models, model_names,
                   num_sounds, max_players, view_entity, cshift_percent, items,
                   item_get_time, player_info, static_entities, channels>>

InitOverlay == InitConnection({"Server"}, {0})

OverlayFrame ==
    \/ \E ft \in {0, Tick}, e \in BOOLEAN : FrameServer(ft, e, Tick)
    \/ DecodeOverlay
    \/ EndOfMessage
    \/ DispatchServerInfo
    \/ DispatchSpawnBaseline
    \/ DispatchSignOnStage
    \/ DispatchDamage
    \/ UpdateInterpRatio
    \/ UpdateEntities
    \/ UpdateTempEntities
    \/ \E send \in SendOutcomes : FinishFrame(send)

NextOverlay == OverlayFrame \/ (cshift_percent <= MaxHit /\ ExecuteBf)

SpecOverlay == InitOverlay /\ [][NextOverlay]_vars /\ WF_vars(OverlayFrame)

\* A frame of stage Done runs to its end.
DoneFrameCompleted ==
    pc = "post" /\ signon = "Done" /\ pc' = "idle" /\ result' = "Ok"

\* An overlay that was above 0 is lower by at least 1; one at 0 stays at 0.
Decayed(before, after) ==
    /\ after >= 0
    /\ before > 0 => after <= before - 1
    /\ before = 0 => after = 0

(***************************************************************************)
(* C39: the damage and bonus overlay percents are never negative (the      *)
(* damage overlay never above 150); every completed frame of stage Done    *)
(* lowers each of them by at least 1 until it is 0 and then leaves it at   *)
(* 0; so when the stage stays Done, frames keep completing and no further  *)
(* Damage command (no further `bf`) arrives, the damage overlay (the bonus *)
(* overlay) is eventually cleared and stays cleared.                       *)
(***************************************************************************)
C39_OverlaysDecay ==
    /\ [](cshift_percent \in 0 .. 150 /\ bonus_percent >= 0)
    /\ [][DoneFrameCompleted
            => /\ Decayed(cshift_percent, cshift_percent')
               /\ Decayed(bonus_percent, bonus_percent')]_vars
    /\ ([]<><<DoneFrameCompleted>>_vars /\ <>[](signon = "Done" /\ cmd.tag # "Damage"))
          => <>[](cshift_percent = 0)
    /\ ([]<><<DoneFrameCompleted>>_vars /\ <>[](signon = "Done")
          /\ <>[][bonus_percent' <= bonus_percent]_vars)
          => <>[](bonus_percent = 0)

\* A frame of 50 ms has completed in stage Done on a damage overlay of 30 and
\* a bonus overlay of 50.
C39_Witness ==
    /\ pc = "idle" /\ result = "Ok"
    /\ signon = "Done"
    /\ frame_time = Tick
    /\ cshift_percent = 23
    /\ bonus_percent = 45


(***************************************************************************)
(* SpecDemoPlayback: a demo of MaxDemoMsgs recorded messages played to its *)
(* end.  The recorded Time values are increasing, equal, decreasing and    *)
(* more than 100 ms apart; every frame advances the render time by 1 ms or *)
(* by DemoFrame.  The host calls frame again and again and every step of a *)
(* frame is taken; a recorded message is finite, so its end is reached     *)
(* however many commands it holds.  The bound on the render time leaves    *)
(* room for one frame per message beyond the largest recorded time.        *)
(***************************************************************************)
PlaybackTimes == {0, Tick, 4 * Tick}
PlaybackAlphabet == TimeCmds(PlaybackTimes)
MaxPlaybackTime == 4 * Tick + (MaxDemoMsgs + 1) * DemoFrame

InitDemoPlayback == InitConnection({"Demo"}, {0})

NextDemoPlayback ==
    \/ \E ft \in {1, DemoFrame} : FrameDemo(ft, MaxPlaybackTime)
    \/ Decode(PlaybackAlphabet)
    \/ EndOfMessage
    \/ DispatchTime
    \/ UpdateInterpRatio
    \/ UpdateEntities
    \/ UpdateTempEntities
    \/ \E send \in SendOutcomes : FinishFrame(send)

SpecDemoPlayback ==
    /\ InitDemoPlayback
    /\ [][NextDemoPlayback]_vars
    /\ WF_vars(NextDemoPlayback)
    /\ SF_vars(EndOfMessage)

(***************************************************************************)
(* C40: demo playback makes progress.  While the demo holds recorded       *)
(* messages and every frame advances the render time by a positive         *)
(* frame_time, the next recorded message is eventually consumed; the       *)
(* snapping of update_interp_ratio never moves the render time back to a   *)
(* value below msg_times[0], and the render time is not held below         *)
(* msg_times[0] forever, whatever the recorded Time values are.            *)
(***************************************************************************)
C40_DemoPlaybackProgresses ==
    /\ \A k \in 1 .. MaxDemoMsgs : (demo_left = k) ~> (demo_left = k - 1)
    /\ []<>(time >= msg_times[0])
    /\ [][(pc = "interp" /\ pc' = "ents" /\ time' < time)
            => time' >= msg_times'[0]]_vars

\* The first message carried a Time 200 ms ahead: update_interp_ratio has
\* pulled msg_times[1] up to 100 ms and has snapped the render time to it,
\* and the second message waits for the render time to reach 200 ms.
C40_Witness ==
    /\ kind = "Demo"
    /\ pc = "ents"
    /\ demo_left = MaxDemoMsgs - 1
    /\ msg_times[0] = 4 * Tick
    /\ msg_times[1] = 4 * Tick - ServerDeltaCapMs
    /\ time = msg_times[1]

====
